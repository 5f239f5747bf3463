-------------------------- MODULE ExchangeProofs --------------------------
(***************************************************************************)
(* The stream of an upstream call, for every capacity of the channel,      *)
(* every limit on the buffer and every provider: it implements the stream  *)
(* contract, keeps its buffer bounded and bills what it delivered.         *)
(***************************************************************************)
EXTENDS TranslationProofs, FiniteSetTheorems

USE DEF vars, callVars, egressVars

-----------------------------------------------------------------------------
(* Where the task stands *)

\* What every place of the task knows of its buffer, its events, its channel.
Flow ==
    /\ pc = "off" => channel = NoStream /\ sent = << >>
    /\ pc # "off" => sent # << >> /\ (channel.open <=> pc # "exit")
    /\ pc \in {"off", "read"} => buf = << >>
    /\ pc = "send" => out = <<"delta">>
    /\ pc = "last" => out = <<"done">> \/ out = <<"error">>
    /\ pc = "off" => rest = 0
    /\ BufferBounded

Inv == EgressTypeOK /\ Flow

LEMMA InitInv == Init => Inv
<1> SUFFICES ASSUME Init PROVE Inv
  OBVIOUS
<1>1. EgressTypeOK
  <2>1. NewTranslator \in Translators BY DEF NewTranslator, Translators
  <2>2. NoBill \in [input : Nat, output : Nat, billable : Nat, read : Nat,
                    write : Nat, failed : BOOLEAN]
    BY DEF NoBill
  <2>3. NoStream \in Streams BY DEF NoStream, Streams
  <2>4. QED BY <2>1, <2>2, <2>3 DEF Init, EgressInit, EgressTypeOK
<1>2. Flow BY EgressAssumption DEF Init, EgressInit, Flow, BufferBounded
<1>3. QED BY <1>1, <1>2 DEF Inv

LEMMA BillType ==
    ASSUME EgressTypeOK, speaks \in Protocols, NEW failed \in BOOLEAN
    PROVE  Bill(failed) \in [input : Nat, output : Nat, billable : Nat, read : Nat,
                             write : Nat, failed : BOOLEAN]
<1>1. Finish(speaks, tr) \in Calls BY FinishType DEF EgressTypeOK
<1>2. QED BY <1>1 DEF Bill, Calls

LEMMA ConcludeInv ==
    ASSUME EgressTypeOK, speaks \in Protocols, NEW kind \in Terminal, Conclude(kind)
    PROVE  /\ pc' = "last"
           /\ out' \in Seq(EventKinds)
           /\ out' = <<"done">> \/ out' = <<"error">>
           /\ billed' \in [input : Nat, output : Nat, billable : Nat, read : Nat,
                           write : Nat, failed : BOOLEAN]
<1>1. (kind = "error") \in BOOLEAN OBVIOUS
<1>2. Bill(kind = "error") \in [input : Nat, output : Nat, billable : Nat, read : Nat,
                               write : Nat, failed : BOOLEAN]
  BY <1>1, BillType
<1>3. out' = <<kind>> /\ kind \in {"done", "error"} BY DEF Conclude, Terminal
<1>4. out' \in Seq(EventKinds) BY <1>3 DEF EventKinds, Terminal
<1>5. QED BY <1>2, <1>3, <1>4 DEF Conclude

LEMMA ChunkType ==
    ASSUME NEW frames \in Chunks
    PROVE  frames \in Seq(FrameKinds)
BY EgressAssumption DEF Chunks

LEMMA OpenInv ==
    ASSUME Inv, NEW kind \in Protocols, Open(kind)
    PROVE  Inv'
<1> USE DEF Inv, Open
<1>1. Connected \in Streams /\ Connected.open BY DEF Connected, Streams, EventKinds, Terminal
<1>2. <<"started">> \in Seq(EventKinds) BY DEF EventKinds
<1>3. EgressTypeOK' BY <1>1, <1>2 DEF EgressTypeOK, Protocols
<1>4. rest + Len(buf) <= MaxFrameBuffer BY EgressAssumption DEF Flow
<1>5. Flow' BY <1>1, <1>4 DEF Flow, BufferBounded
<1>6. QED BY <1>3, <1>5

LEMMA Running == Inv /\ pc # "off" => speaks \in Protocols
BY DEF Inv, EgressTypeOK, Protocols

LEMMA ReadChunkInv ==
    ASSUME Inv, NEW frames \in Chunks, NEW part \in 0 .. MaxFrameBuffer,
           ReadChunk(frames, part)
    PROVE  Inv'
<1> USE DEF Inv
<1>1. /\ pc = "read" /\ pc # "off" /\ speaks \in Protocols /\ buf = << >>
      /\ channel' = channel /\ sent' = sent /\ tr' = tr /\ speaks' = speaks
  BY Running DEF ReadChunk, Flow
<1>2. frames \in Seq(FrameKinds) /\ Len(frames) \in Nat BY ChunkType
<1>3. part \in Nat /\ rest \in Nat /\ rest' \in Nat
  BY EgressAssumption DEF ReadChunk, EgressTypeOK
<1>4. CASE rest + Len(frames) + part > MaxFrameBuffer
  <2>1. Conclude("error") /\ UNCHANGED <<buf, counted>> BY <1>4 DEF ReadChunk
  <2>2. /\ pc' = "last" /\ out' \in Seq(EventKinds)
        /\ out' = <<"done">> \/ out' = <<"error">>
        /\ billed' \in [input : Nat, output : Nat, billable : Nat, read : Nat,
                        write : Nat, failed : BOOLEAN]
    BY <1>1, <2>1, ConcludeInv DEF Terminal
  <2>3. EgressTypeOK' BY <1>1, <1>3, <2>1, <2>2 DEF EgressTypeOK, Protocols
  <2>4. Flow' BY <1>1, <2>2 DEF Flow, BufferBounded
  <2>5. QED BY <2>3, <2>4
<1>5. CASE ~(rest + Len(frames) + part > MaxFrameBuffer)
  <2>1. /\ buf' = frames /\ pc' = "split" /\ UNCHANGED <<out, billed>>
        /\ counted' = counted \cup CountsIn(frames)
    BY <1>5 DEF ReadChunk
  <2>2. counted' \subseteq CountFrames BY <2>1 DEF CountsIn, EgressTypeOK
  <2>3. EgressTypeOK' BY <1>1, <1>2, <1>3, <2>1, <2>2 DEF EgressTypeOK, Protocols
  <2>4. rest' <= rest + part
    BY <1>3 DEF ReadChunk
  <2>5. rest' + Len(buf') <= MaxFrameBuffer
    BY <1>2, <1>3, <1>5, <2>1, <2>4, EgressAssumption
  <2>6. Flow' BY <1>1, <2>1, <2>5 DEF Flow, BufferBounded
  <2>7. QED BY <2>3, <2>6
<1>6. QED BY <1>4, <1>5

LEMMA ReadEndsInv ==
    ASSUME Inv, ReadError \/ ReadEof
    PROVE  Inv'
<1> USE DEF Inv
<1>1. /\ pc = "read" /\ pc # "off" /\ speaks \in Protocols
      /\ UNCHANGED <<speaks, buf, rest, tr, channel, sent, counted>>
  BY Running DEF ReadError, ReadEof
<1>2. \E kind \in Terminal : Conclude(kind) BY DEF ReadError, ReadEof, Terminal
<1>3. /\ pc' = "last" /\ out' \in Seq(EventKinds)
      /\ out' = <<"done">> \/ out' = <<"error">>
      /\ billed' \in [input : Nat, output : Nat, billable : Nat, read : Nat,
                      write : Nat, failed : BOOLEAN]
  BY <1>1, <1>2, ConcludeInv
<1>4. EgressTypeOK' BY <1>1, <1>3 DEF EgressTypeOK, Protocols
<1>5. Flow' BY <1>1, <1>3 DEF Flow, BufferBounded
<1>6. QED BY <1>4, <1>5

LEMMA SplitDoneInv ==
    ASSUME Inv, SplitDone
    PROVE  Inv'
<1> USE DEF Inv, SplitDone
<1>1. EgressTypeOK' BY DEF EgressTypeOK
<1>2. Flow' BY DEF Flow, BufferBounded
<1>3. QED BY <1>1, <1>2

\* Taking the first frame of the buffer.
LEMMA BufferTail ==
    ASSUME EgressTypeOK, buf # << >>
    PROVE  /\ Head(buf) \in FrameKinds
           /\ Tail(buf) \in Seq(FrameKinds)
           /\ Len(Tail(buf)) = Len(buf) - 1
           /\ Len(buf) \in Nat \ {0}
<1>1. buf \in Seq(FrameKinds) BY DEF EgressTypeOK
<1>2. QED BY <1>1

LEMMA TranslateInv ==
    ASSUME Inv, Translate
    PROVE  Inv'
<1> USE DEF Inv
<1>1. /\ pc = "split" /\ pc # "off" /\ speaks \in Protocols /\ buf # << >>
      /\ buf' = Tail(buf)
      /\ tr' = Push(speaks, tr, Head(buf), Counted(speaks, tr.text))
      /\ UNCHANGED <<speaks, rest, channel, sent, counted>>
  BY Running DEF Translate
<1>2. tr' \in Translators
  <2>1. tr \in Translators /\ tr.text \in Nat BY DEF EgressTypeOK, Translators
  <2>2. QED BY <1>1, <2>1, BufferTail, CountedType, PushType
<1>3. buf' \in Seq(FrameKinds) BY <1>1, BufferTail
<1>4. rest + Len(buf') <= MaxFrameBuffer
  <2>1. rest + Len(buf) <= MaxFrameBuffer BY <1>1 DEF Flow, BufferBounded
  <2>2. QED BY <1>1, <2>1, BufferTail, EgressAssumption DEF EgressTypeOK
<1>5. CASE Head(buf) = "text"
  <2>1. out' = <<"delta">> /\ pc' = "send" /\ UNCHANGED billed BY <1>5 DEF Translate
  <2>2. EgressTypeOK' BY <1>1, <1>2, <1>3, <2>1 DEF EgressTypeOK, EventKinds
  <2>3. Flow' BY <1>1, <1>4, <2>1 DEF Flow, BufferBounded
  <2>4. QED BY <2>2, <2>3
<1>6. CASE Head(buf) \in {"start", "usage", "other"}
  <2>1. UNCHANGED <<pc, out, billed>> BY <1>6 DEF Translate
  <2>2. EgressTypeOK' BY <1>1, <1>2, <1>3, <2>1 DEF EgressTypeOK
  <2>3. Flow' BY <1>1, <1>4, <2>1 DEF Flow, BufferBounded
  <2>4. QED BY <2>2, <2>3
<1>7. CASE Head(buf) \in {"end", "bad"}
  <2>1. \E kind \in Terminal : Conclude(kind) BY <1>7 DEF Translate, Terminal
  <2>2. /\ pc' = "last" /\ out' \in Seq(EventKinds)
        /\ out' = <<"done">> \/ out' = <<"error">>
        /\ billed' \in [input : Nat, output : Nat, billable : Nat, read : Nat,
                        write : Nat, failed : BOOLEAN]
    BY <1>1, <2>1, ConcludeInv
  <2>3. EgressTypeOK' BY <1>1, <1>2, <1>3, <2>2 DEF EgressTypeOK
  <2>4. Flow' BY <1>1, <2>2 DEF Flow, BufferBounded
  <2>5. QED BY <2>3, <2>4
<1>8. Head(buf) \in {"text", "start", "usage", "other", "end", "bad"}
  BY <1>1, BufferTail DEF FrameKinds
<1>9. QED BY <1>5, <1>6, <1>7, <1>8

LEMMA SendEventInv ==
    ASSUME Inv, SendEvent
    PROVE  /\ Inv'
           /\ Head(out) \in EventKinds \ {"started"}
           /\ (pc = "send") = (Head(out) = "delta")
           /\ out \in Seq(EventKinds)
<1> USE DEF Inv
<1>1. pc \in {"send", "last"} /\ CanSend(channel) /\ channel \in Streams
  BY DEF SendEvent, EgressTypeOK
<1>2. /\ pc = "send" => Head(out) = "delta"
      /\ pc = "last" => Head(out) \in Terminal
  BY DEF Flow, Terminal
<1>3. Head(out) \in EventKinds /\ Head(out) \in EventKinds \ {"started"}
      /\ (pc = "send") = (Head(out) = "delta")
  BY <1>1, <1>2 DEF EventKinds, Terminal
<1>4. channel.queue \in Seq(EventKinds) /\ channel.rx \in BOOLEAN
  BY <1>1 DEF Streams
<1>5. Append(channel.queue, Head(out)) \in Seq(EventKinds) BY <1>3, <1>4
<1>6. channel' \in Streams BY <1>4, <1>5 DEF SendEvent, Send, Streams
<1>7. channel'.open <=> pc = "send"
  BY <1>1, <1>2 DEF SendEvent, Send, Terminal
<1>8. /\ sent' = Append(sent, Head(out)) /\ sent \in Seq(EventKinds)
      /\ out' = << >>
      /\ pc' = IF pc = "send" THEN "split" ELSE "exit"
      /\ UNCHANGED <<speaks, buf, rest, tr, billed, counted>>
  BY DEF SendEvent, EgressTypeOK
<1>9. sent' \in Seq(EventKinds) /\ sent' # << >> BY <1>3, <1>8
<1>10. EgressTypeOK' BY <1>1, <1>6, <1>8, <1>9 DEF EgressTypeOK
<1>11. Flow' BY <1>1, <1>7, <1>8, <1>9 DEF Flow, BufferBounded
<1>12. out \in Seq(EventKinds) BY DEF EgressTypeOK
<1>13. QED BY <1>3, <1>10, <1>11, <1>12

LEMMA SendRefusedInv ==
    ASSUME Inv, SendRefused
    PROVE  Inv'
<1> USE DEF Inv, SendRefused
<1>1. channel \in Streams BY DEF EgressTypeOK
<1>2. channel' \in Streams /\ ~channel'.open BY <1>1 DEF DropSender, Streams
<1>3. EgressTypeOK' BY <1>2 DEF EgressTypeOK
<1>4. Flow' BY <1>2 DEF Flow, BufferBounded
<1>5. QED BY <1>3, <1>4

LEMMA ClientInv ==
    ASSUME Inv, ClientTakes \/ ClientLeaves
    PROVE  Inv'
<1> USE DEF Inv
<1>1. channel \in Streams /\ UNCHANGED <<pc, speaks, buf, rest, tr, out, sent, billed, counted>>
  BY DEF EgressTypeOK, ClientTakes, ClientLeaves
<1>2. channel' \in Streams /\ channel'.open = channel.open
  <2>1. CASE ClientTakes
    <3>1. channel.queue \in Seq(EventKinds) /\ channel.queue # << >>
      BY <1>1, <2>1 DEF ClientTakes, CanRecv, Streams
    <3>2. Tail(channel.queue) \in Seq(EventKinds) BY <3>1
    <3>3. QED BY <1>1, <2>1, <3>2 DEF ClientTakes, Recv, Streams
  <2>2. CASE ClientLeaves BY <1>1, <2>2 DEF ClientLeaves, DropReceiver, Streams
  <2>3. QED BY <2>1, <2>2
<1>3. EgressTypeOK' BY <1>1, <1>2 DEF EgressTypeOK
<1>4. pc # "off"
  <2>1. pc = "off" => ~channel.rx /\ channel.queue = << >> BY DEF Flow, NoStream
  <2>2. QED BY <2>1 DEF ClientTakes, ClientLeaves, CanRecv
<1>5. Flow' BY <1>1, <1>2, <1>4 DEF Flow, BufferBounded
<1>6. QED BY <1>3, <1>5

-----------------------------------------------------------------------------
(* What is billed *)

LEMMA NoDeltas == DeltasIn(<<"started">>) = 0
<1>1. {i \in DOMAIN <<"started">> : <<"started">>[i] = "delta"} = {} OBVIOUS
<1>2. QED BY <1>1, FS_EmptySet DEF DeltasIn

\* The frames of the buffer come in the order in which a provider sends them,
\* and all that carry counts are on record.
FramesRight ==
    /\ speaks # "anthropic" => "start" \notin counted
    /\ \A i \in DOMAIN buf : buf[i] \in CountFrames => buf[i] \in counted
    /\ \A i, j \in DOMAIN buf : buf[i] = "usage" /\ i < j => buf[j] \notin {"text", "usage"}
    /\ \A i \in DOMAIN buf : buf[i] = "start" => i = 1
    /\ Told("usage") => \A i \in DOMAIN buf : buf[i] # "text"

\* The translator knows what it was told, and no more.
CountsRight ==
    /\ tr.output = IF Told("usage") THEN PerDelta * tr.text ELSE 0
    /\ tr.known <=> Told("usage") \/ Told("start")
    /\ tr.input = IF PromptTold THEN Counted(speaks, 0).input ELSE 0
    /\ tr.read = IF PromptTold THEN Cached ELSE 0

\* A call that is billed for so many deltas.
Right(call, deltas, failed) ==
    /\ call.output = IF Told("usage") THEN PerDelta * deltas ELSE (DeltaChars * deltas) \div 4
    /\ call.billable = IF PromptTold THEN Fresh ELSE 0
    /\ call.read = IF PromptTold THEN Cached ELSE 0
    /\ call.failed = failed

LEMMA NoTokens ==
    ASSUME NEW n \in Nat, PerDelta * n = 0
    PROVE  n = 0
BY CountsAssumption, SMT

LEMMA EstimateOfNone == (DeltaChars * 0) \div 4 = 0
BY CountsAssumption, SMT

LEMMA BillRight ==
    ASSUME EgressTypeOK, speaks \in Protocols, CountsRight, FramesRight,
           NEW failed \in BOOLEAN
    PROVE  Right(Bill(failed), tr.text, failed)
<1> DEFINE estimate == (DeltaChars * tr.text) \div 4
           tokens   == PerDelta * tr.text
<1>1. /\ tr.text \in Nat /\ tr.input \in Nat /\ tr.output \in Nat /\ tr.read \in Nat
      /\ Fresh \in Nat /\ Cached \in Nat
  BY CountsAssumption DEF EgressTypeOK, Translators
<1>2. tokens \in Nat BY <1>1, CountsAssumption
<1>3. tokens = 0 => estimate = 0
  <2> SUFFICES ASSUME tokens = 0 PROVE estimate = 0
    OBVIOUS
  <2>1. tr.text = 0 BY <1>1, NoTokens
  <2>2. QED BY <2>1, EstimateOfNone
<1>4. Estimate(tr) = estimate BY DEF Estimate
<1>5. tr.output = IF Told("usage") THEN tokens ELSE 0 BY DEF CountsRight
<1>6. tr.read = IF PromptTold THEN Cached ELSE 0 BY DEF CountsRight
<1> HIDE DEF estimate, tokens
<1>7. CASE speaks = "anthropic"
  <2>1. tr.input = IF PromptTold THEN Fresh ELSE 0 BY <1>7 DEF CountsRight, Counted
  <2>2. Finish(speaks, tr) = AnthropicCall(tr.input,
            IF tr.output > 0 THEN tr.output ELSE estimate, tr.read, tr.write)
    BY <1>4, <1>7 DEF Finish, FinishAnthropic
  <2>3. /\ Bill(failed).output = IF tr.output > 0 THEN tr.output ELSE estimate
        /\ Bill(failed).billable = tr.input /\ Bill(failed).read = tr.read
        /\ Bill(failed).failed = failed
    BY <2>2 DEF Bill, AnthropicCall
  <2>4. Bill(failed).output = IF Told("usage") THEN tokens ELSE estimate
    BY <1>2, <1>3, <1>5, <2>3
  <2>5. QED BY <1>6, <2>1, <2>3, <2>4 DEF Right, tokens, estimate
<1>8. CASE speaks \in {"chat", "responses"}
  <2>1. /\ tr.input = IF PromptTold THEN Fresh + Cached ELSE 0
        /\ PromptTold <=> Told("usage")
    BY <1>8 DEF CountsRight, Counted, PromptTold
  <2>2. SaturatingSub(tr.input, tr.read) = IF PromptTold THEN Fresh ELSE 0
    BY <1>1, <1>6, <2>1 DEF SaturatingSub
  <2>3. tr.known <=> Told("usage") BY <1>8 DEF CountsRight, FramesRight, Told
  <2>4. \E output : /\ output = IF Told("usage") THEN tokens ELSE estimate
                    /\ Finish(speaks, tr) = OpenAiCall(tr.input, output, tr.read)
    <3>1. CASE speaks = "chat"
      <4>1. Finish(speaks, tr) = OpenAiCall(tr.input,
                IF tr.known THEN tr.output ELSE estimate, tr.read)
        BY <1>4, <3>1 DEF Finish, FinishChat
      <4>2. (IF tr.known THEN tr.output ELSE estimate)
              = IF Told("usage") THEN tokens ELSE estimate
        BY <1>5, <2>3
      <4>3. QED BY <4>1, <4>2
    <3>2. CASE speaks = "responses"
      <4>1. Finish(speaks, tr) = OpenAiCall(tr.input,
                IF tr.output > 0 THEN tr.output ELSE estimate, tr.read)
        BY <1>4, <3>2 DEF Finish, FinishResponses
      <4>2. (IF tr.output > 0 THEN tr.output ELSE estimate)
              = IF Told("usage") THEN tokens ELSE estimate
        BY <1>2, <1>3, <1>5
      <4>3. QED BY <4>1, <4>2
    <3>3. QED BY <1>8, <3>1, <3>2
  <2>5. /\ Bill(failed).output = IF Told("usage") THEN tokens ELSE estimate
        /\ Bill(failed).billable = SaturatingSub(tr.input, tr.read)
        /\ Bill(failed).read = tr.read
        /\ Bill(failed).failed = failed
    BY <2>4 DEF Bill, OpenAiCall
  <2>6. QED BY <1>6, <2>2, <2>5 DEF Right, tokens, estimate
<1>9. QED BY <1>7, <1>8 DEF Protocols

\* What is billed where the task stands.
Tally ==
    /\ pc = "off" => tr = NewTranslator /\ counted = {}
    /\ pc \in {"read", "split"} => tr.text = DeltasSent
    /\ pc = "send" => tr.text = DeltasSent + 1
    /\ pc \in {"off", "read", "split", "send"} => FramesRight /\ CountsRight
    /\ pc # "exit" => ~Ended("done") /\ ~Ended("error")
    /\ pc = "last" => Right(billed, DeltasSent, out = <<"error">>)
    /\ pc = "exit" => BilledAsDelivered

LEMMA InitTally == Init => Tally
<1> SUFFICES ASSUME Init PROVE Tally
  OBVIOUS
<1> USE DEF Init, EgressInit
<1>1. FramesRight BY DEF FramesRight, Told
<1>2. CountsRight BY DEF CountsRight, PromptTold, Told, NewTranslator
<1>3. QED BY <1>1, <1>2 DEF Tally, Ended

LEMMA CountsKept ==
    ASSUME \A frame \in CountFrames : Told(frame)' <=> Told(frame),
           tr' = tr, speaks' = speaks, CountsRight
    PROVE  CountsRight'
<1>1. (Told("usage")' <=> Told("usage")) /\ (Told("start")' <=> Told("start"))
  BY DEF CountFrames
<1>2. PromptTold' <=> PromptTold BY <1>1 DEF PromptTold
<1>3. QED BY <1>1, <1>2 DEF CountsRight, Counted

LEMMA RightKept ==
    ASSUME \A frame \in CountFrames : Told(frame)' <=> Told(frame), speaks' = speaks,
           NEW call, NEW deltas, NEW failed, Right(call, deltas, failed)
    PROVE  Right(call, deltas, failed)'
<1>1. (Told("usage")' <=> Told("usage")) /\ (Told("start")' <=> Told("start"))
  BY DEF CountFrames
<1>2. PromptTold' <=> PromptTold BY <1>1 DEF PromptTold
<1>3. QED BY <1>1, <1>2 DEF Right

LEMMA OpenTally ==
    ASSUME Inv, Tally, NEW kind \in Protocols, Open(kind)
    PROVE  Tally'
<1>1. /\ pc = "off" /\ tr = NewTranslator /\ counted = {} /\ buf = << >>
      /\ pc' = "read" /\ sent' = <<"started">>
      /\ UNCHANGED <<buf, tr, counted>>
  BY DEF Open, Tally, Inv, Flow
<1>2. FramesRight' BY <1>1 DEF FramesRight, Told
<1>3. CountsRight' BY <1>1 DEF CountsRight, PromptTold, Told, NewTranslator
<1>4. DeltasSent' = 0 BY <1>1, NoDeltas DEF DeltasSent
<1>5. (~Ended("done") /\ ~Ended("error"))' BY <1>1 DEF Ended
<1>6. tr'.text = 0 BY <1>1 DEF NewTranslator
<1>7. QED BY <1>1, <1>2, <1>3, <1>4, <1>5, <1>6 DEF Tally

\* Leaving for the terminal event.
LEMMA ConcludeTally ==
    ASSUME Inv, Tally, pc \in {"read", "split"}, NEW kind \in Terminal, Conclude(kind),
           UNCHANGED <<sent, speaks>>,
           \A frame \in CountFrames : Told(frame)' <=> Told(frame)
    PROVE  Tally'
<1>1. /\ pc' = "last" /\ out' = <<kind>> /\ billed' = Bill(kind = "error")
      /\ DeltasSent' = DeltasSent
  BY DEF Conclude, DeltasSent
<1>2. EgressTypeOK /\ speaks \in Protocols BY Running DEF Inv
<1>3. FramesRight /\ CountsRight /\ tr.text = DeltasSent BY DEF Tally
<1>4. Right(Bill(kind = "error"), tr.text, kind = "error")
  BY <1>2, <1>3, BillRight
<1> DEFINE bill == Bill(kind = "error")
           deltas == DeltasSent
<1>5. Right(bill, deltas, kind = "error") BY <1>3, <1>4
<1>6. billed' = bill /\ DeltasSent' = deltas BY <1>1
<1> HIDE DEF bill, deltas
<1>7. \A call, n, failed : Right(call, n, failed) => Right(call, n, failed)'
  BY RightKept
<1>8. (out' = <<"error">>) = (kind = "error") BY <1>1
<1>9. Right(billed, DeltasSent, out = <<"error">>)'
  BY <1>5, <1>6, <1>7, <1>8 DEF Right
<1>10. (~Ended("done") /\ ~Ended("error"))' BY <1>1 DEF Tally, Ended
<1>11. QED BY <1>1, <1>9, <1>10 DEF Tally

LEMMA ReadChunkTally ==
    ASSUME Inv, Tally, NEW frames \in Chunks, NEW part \in 0 .. MaxFrameBuffer,
           ReadChunk(frames, part)
    PROVE  Tally'
<1>1. /\ pc = "read" /\ buf = << >> /\ Honest(frames)
      /\ UNCHANGED <<speaks, tr, channel, sent>>
  BY DEF ReadChunk, Inv, Flow
<1>2. FramesRight /\ CountsRight /\ tr.text = DeltasSent BY <1>1 DEF Tally
<1>3. CASE rest + Len(frames) + part > MaxFrameBuffer
  <2>1. Conclude("error") /\ UNCHANGED <<buf, counted>> BY <1>3 DEF ReadChunk
  <2>2. \A frame \in CountFrames : Told(frame)' <=> Told(frame) BY <2>1 DEF Told
  <2>3. QED BY <1>1, <2>1, <2>2, ConcludeTally DEF Terminal
<1>4. CASE ~(rest + Len(frames) + part > MaxFrameBuffer)
  <2>1. /\ buf' = frames /\ pc' = "split" /\ UNCHANGED <<out, billed>>
        /\ counted' = counted \cup CountsIn(frames)
    BY <1>4 DEF ReadChunk
  <2>2. frames \in Seq(FrameKinds) BY ChunkType
  <2>3. \A frame : frame \in CountsIn(frames) <=>
                     frame \in CountFrames /\ \E i \in DOMAIN frames : frames[i] = frame
    BY DEF CountsIn
  <2>4. \A frame \in CountFrames :
           frame \in counted => \A i \in DOMAIN frames : frames[i] # frame
    BY <1>1 DEF Honest, CountFrames
  <2>5. \A frame \in CountFrames : Told(frame)' <=> Told(frame)
    BY <1>1, <2>1, <2>3, <2>4 DEF Told
  <2>6. CountsRight' BY <1>1, <1>2, <2>5, CountsKept
  <2>7. FramesRight'
    <3>1. Told("usage")' => "usage" \in counted BY <2>5, <1>1 DEF CountFrames, Told
    <3>2. speaks # "anthropic" => "start" \notin CountsIn(frames)
      BY <1>1, <2>3 DEF Honest
    <3>3. \A i \in DOMAIN frames : frames[i] \in CountFrames => frames[i] \in counted'
      BY <2>1, <2>3
    <3>4. QED BY <1>1, <1>2, <2>1, <3>1, <3>2, <3>3 DEF FramesRight, Honest
  <2>8. DeltasSent' = DeltasSent BY <1>1 DEF DeltasSent
  <2>9. (~Ended("done") /\ ~Ended("error"))' BY <1>1 DEF Tally, Ended
  <2>10. QED BY <1>1, <1>2, <2>1, <2>6, <2>7, <2>8, <2>9 DEF Tally
<1>5. QED BY <1>3, <1>4

LEMMA ReadEndsTally ==
    ASSUME Inv, Tally, ReadError \/ ReadEof
    PROVE  Tally'
<1>1. /\ pc = "read" /\ UNCHANGED <<speaks, buf, rest, tr, channel, sent, counted>>
  BY DEF ReadError, ReadEof
<1>2. \E kind \in Terminal : Conclude(kind) BY DEF ReadError, ReadEof, Terminal
<1>3. \A frame \in CountFrames : Told(frame)' <=> Told(frame) BY <1>1 DEF Told
<1>4. QED BY <1>1, <1>2, <1>3, ConcludeTally

LEMMA SplitDoneTally ==
    ASSUME Inv, Tally, SplitDone
    PROVE  Tally'
<1>1. /\ pc = "split" /\ pc' = "read"
      /\ UNCHANGED <<speaks, buf, rest, tr, out, channel, sent, billed, counted>>
  BY DEF SplitDone
<1>2. \A frame \in CountFrames : Told(frame)' <=> Told(frame) BY <1>1 DEF Told
<1>3. FramesRight /\ CountsRight /\ tr.text = DeltasSent BY <1>1 DEF Tally
<1>4. CountsRight' BY <1>1, <1>2, <1>3, CountsKept
<1>5. FramesRight' BY <1>1, <1>3 DEF FramesRight, Told
<1>6. DeltasSent' = DeltasSent BY <1>1 DEF DeltasSent
<1>7. (~Ended("done") /\ ~Ended("error"))' BY <1>1 DEF Tally, Ended
<1>8. QED BY <1>1, <1>3, <1>4, <1>5, <1>6, <1>7 DEF Tally

\* Of the buffer without its first frame.
LEMMA TailOfBuffer ==
    ASSUME Inv, buf # << >>, buf' = Tail(buf)
    PROVE  /\ DOMAIN buf = 1 .. Len(buf) /\ Len(buf) \in Nat \ {0}
           /\ DOMAIN buf' = 1 .. Len(buf) - 1
           /\ \A i \in DOMAIN buf' : i + 1 \in DOMAIN buf /\ buf'[i] = buf[i + 1]
           /\ 1 \in DOMAIN buf /\ buf[1] = Head(buf)
<1>1. buf \in Seq(FrameKinds) BY DEF Inv, EgressTypeOK
<1>2. QED BY <1>1

LEMMA ToldByTail ==
    ASSUME Inv, FramesRight, buf # << >>, buf' = Tail(buf), counted' = counted
    PROVE  /\ \A frame \in CountFrames :
                 Head(buf) # frame => (Told(frame)' <=> Told(frame))
           /\ \A frame \in CountFrames :
                 Head(buf) = frame => Told(frame)' /\ ~Told(frame)
<1>1. \A frame \in CountFrames :
         Head(buf) # frame =>
           ((\A i \in DOMAIN buf' : buf'[i] # frame) <=> (\A i \in DOMAIN buf : buf[i] # frame))
  <2> SUFFICES ASSUME NEW frame \in CountFrames, Head(buf) # frame,
                      \A i \in DOMAIN buf' : buf'[i] # frame,
                      NEW i \in DOMAIN buf
               PROVE  buf[i] # frame
    BY TailOfBuffer
  <2>1. CASE i = 1 BY <2>1, TailOfBuffer
  <2>2. CASE i # 1
    <3>1. i - 1 \in DOMAIN buf' /\ (i - 1) + 1 = i BY <2>2, TailOfBuffer
    <3>2. buf'[i - 1] = buf[i] BY <3>1, TailOfBuffer
    <3>3. QED BY <3>1, <3>2
  <2>3. QED BY <2>1, <2>2
<1>2. \A frame \in CountFrames :
         Head(buf) = frame => \A i \in DOMAIN buf' : buf'[i] # frame
  <2> SUFFICES ASSUME NEW frame \in CountFrames, Head(buf) = frame, NEW i \in DOMAIN buf'
               PROVE  buf'[i] # frame
    OBVIOUS
  <2>1. /\ i + 1 \in DOMAIN buf /\ buf'[i] = buf[i + 1] /\ 1 < i + 1 /\ i + 1 # 1
        /\ 1 \in DOMAIN buf /\ buf[1] = frame
    BY TailOfBuffer
  <2>2. CASE frame = "usage" BY <2>1, <2>2 DEF FramesRight
  <2>3. CASE frame = "start" BY <2>1, <2>3 DEF FramesRight
  <2>4. QED BY <2>2, <2>3 DEF CountFrames
<1>3. \A frame \in CountFrames : Head(buf) = frame => frame \in counted
  BY TailOfBuffer DEF FramesRight
<1>4. QED BY <1>1, <1>2, <1>3, TailOfBuffer DEF Told

LEMMA FramesByTail ==
    ASSUME Inv, FramesRight, buf # << >>, buf' = Tail(buf),
           counted' = counted, speaks' = speaks
    PROVE  FramesRight'
<1>1. \A i \in DOMAIN buf' : buf'[i] \in CountFrames => buf'[i] \in counted'
  BY TailOfBuffer DEF FramesRight
<1>2. \A i, j \in DOMAIN buf' : buf'[i] = "usage" /\ i < j => buf'[j] \notin {"text", "usage"}
  <2> SUFFICES ASSUME NEW i \in DOMAIN buf', NEW j \in DOMAIN buf',
                      buf'[i] = "usage", i < j
               PROVE  buf'[j] \notin {"text", "usage"}
    OBVIOUS
  <2>1. /\ i + 1 \in DOMAIN buf /\ j + 1 \in DOMAIN buf /\ i + 1 < j + 1
        /\ buf[i + 1] = "usage" /\ buf'[j] = buf[j + 1]
    BY TailOfBuffer
  <2>2. QED BY <2>1 DEF FramesRight
<1>3. \A i \in DOMAIN buf' : buf'[i] # "start"
  <2> SUFFICES ASSUME NEW i \in DOMAIN buf' PROVE buf'[i] # "start"
    OBVIOUS
  <2>1. i + 1 \in DOMAIN buf /\ i + 1 # 1 /\ buf'[i] = buf[i + 1] BY TailOfBuffer
  <2>2. QED BY <2>1 DEF FramesRight
<1>4. Told("usage")' => \A i \in DOMAIN buf' : buf'[i] # "text"
  <2> SUFFICES ASSUME Told("usage")', NEW i \in DOMAIN buf'
               PROVE  buf'[i] # "text"
    OBVIOUS
  <2>1. /\ i + 1 \in DOMAIN buf /\ 1 < i + 1 /\ buf'[i] = buf[i + 1]
        /\ 1 \in DOMAIN buf /\ buf[1] = Head(buf)
    BY TailOfBuffer
  <2>2. CASE Head(buf) = "usage" BY <2>1, <2>2 DEF FramesRight
  <2>3. CASE Head(buf) # "usage"
    <3>1. Told("usage") BY <2>3, ToldByTail DEF CountFrames
    <3>2. QED BY <2>1, <3>1 DEF FramesRight
  <2>4. QED BY <2>2, <2>3
<1>5. QED BY <1>1, <1>2, <1>3, <1>4 DEF FramesRight

\* push, field by field, for any connector.
LEMMA PushOpenAi ==
    ASSUME NEW kind \in {"chat", "responses"}, NEW t \in Translators,
           NEW frame \in FrameKinds, NEW said \in Counts
    PROVE  Push(kind, t, frame, said) = PushChat(t, frame, said)
<1>1. CASE kind = "chat" BY <1>1 DEF Push
<1>2. CASE kind = "responses" BY <1>2, PushResponsesIs DEF Push
<1>3. QED BY <1>1, <1>2

LEMMA TranslateCounts ==
    ASSUME Inv, FramesRight, CountsRight, speaks \in Protocols, buf # << >>,
           buf' = Tail(buf), counted' = counted, speaks' = speaks,
           tr' = Push(speaks, tr, Head(buf), Counted(speaks, tr.text))
    PROVE  CountsRight'
<1> DEFINE frame == Head(buf)
           said  == Counted(speaks, tr.text)
<1>1. frame \in FrameKinds BY BufferTail DEF Inv
<1>2. tr \in Translators /\ tr.text \in Nat BY DEF Inv, EgressTypeOK, Translators
<1>3. said \in Counts BY <1>2, CountedType
<1>4. /\ said.output = PerDelta * tr.text /\ said.read = Cached
      /\ said.input = Counted(speaks, 0).input
  BY DEF Counted
<1>5. /\ frame # "usage" => (Told("usage")' <=> Told("usage"))
      /\ frame # "start" => (Told("start")' <=> Told("start"))
      /\ frame = "usage" => Told("usage")' /\ ~Told("usage")
      /\ frame = "start" => Told("start")' /\ ~Told("start")
  BY ToldByTail DEF CountFrames
<1>6. frame = "start" => speaks = "anthropic"
  BY TailOfBuffer DEF FramesRight, CountFrames
<1>7. frame = "text" => ~Told("usage") BY TailOfBuffer DEF FramesRight
<1>8. speaks # "anthropic" => ~Told("start") /\ ~Told("start")'
  BY DEF FramesRight, Told
<1>9. Counted(speaks, 0).input' = Counted(speaks, 0).input BY DEF Counted
<1> HIDE DEF frame, said
<1>10. CASE speaks = "anthropic"
  <2>1. tr' = PushAnthropic(tr, frame, said) BY <1>10 DEF Push, frame, said
  <2>2. /\ tr'.text = IF frame = "text" THEN tr.text + 1 ELSE tr.text
        /\ tr'.input = IF frame = "start" THEN said.input ELSE tr.input
        /\ tr'.output = IF frame = "usage" THEN said.output ELSE tr.output
        /\ tr'.read = IF frame = "start" THEN said.read ELSE tr.read
        /\ tr'.known <=> frame \in {"start", "usage"} \/ tr.known
    BY <1>1, <1>2, <1>3, <2>1, PushAnthropicFields
  <2>3. (PromptTold <=> Told("start")) /\ (PromptTold' <=> Told("start")')
    BY <1>10 DEF PromptTold
  <2>4. tr'.output = IF Told("usage")' THEN PerDelta * tr'.text ELSE 0
    <3>1. CASE frame = "usage" BY <1>4, <1>5, <2>2, <3>1
    <3>2. CASE frame = "text" BY <1>5, <1>7, <2>2, <3>2 DEF CountsRight
    <3>3. CASE frame \notin {"usage", "text"} BY <1>5, <2>2, <3>3 DEF CountsRight
    <3>4. QED BY <3>1, <3>2, <3>3
  <2>5. tr'.known <=> Told("usage")' \/ Told("start")'
    BY <1>5, <2>2 DEF CountsRight
  <2>6. /\ tr'.input = IF PromptTold' THEN Counted(speaks, 0).input ELSE 0
        /\ tr'.read = IF PromptTold' THEN Cached ELSE 0
    <3>1. CASE frame = "start" BY <1>4, <1>5, <2>2, <2>3, <3>1
    <3>2. CASE frame # "start" BY <1>5, <2>2, <2>3, <3>2 DEF CountsRight
    <3>3. QED BY <3>1, <3>2
  <2>7. QED BY <1>9, <2>4, <2>5, <2>6 DEF CountsRight
<1>11. CASE speaks \in {"chat", "responses"}
  <2>1. tr' = PushChat(tr, frame, said)
    BY <1>1, <1>2, <1>3, <1>11, PushOpenAi DEF frame, said
  <2>2. /\ tr'.text = IF frame = "text" THEN tr.text + 1 ELSE tr.text
        /\ tr'.input = IF frame = "usage" THEN said.input ELSE tr.input
        /\ tr'.output = IF frame = "usage" THEN said.output ELSE tr.output
        /\ tr'.read = IF frame = "usage" THEN said.read ELSE tr.read
        /\ tr'.known <=> frame = "usage" \/ tr.known
    BY <1>1, <1>2, <1>3, <2>1, PushChatFields
  <2>3. (PromptTold <=> Told("usage")) /\ (PromptTold' <=> Told("usage")')
    BY <1>11 DEF PromptTold
  <2>4. tr'.output = IF Told("usage")' THEN PerDelta * tr'.text ELSE 0
    <3>1. CASE frame = "usage" BY <1>4, <1>5, <2>2, <3>1
    <3>2. CASE frame = "text" BY <1>5, <1>7, <2>2, <3>2 DEF CountsRight
    <3>3. CASE frame \notin {"usage", "text"} BY <1>5, <2>2, <3>3 DEF CountsRight
    <3>4. QED BY <3>1, <3>2, <3>3
  <2>5. tr'.known <=> Told("usage")' \/ Told("start")'
    BY <1>5, <1>8, <1>11, <2>2 DEF CountsRight
  <2>6. /\ tr'.input = IF PromptTold' THEN Counted(speaks, 0).input ELSE 0
        /\ tr'.read = IF PromptTold' THEN Cached ELSE 0
    <3>1. CASE frame = "usage" BY <1>4, <1>5, <2>2, <2>3, <3>1
    <3>2. CASE frame # "usage" BY <1>5, <2>2, <2>3, <3>2 DEF CountsRight
    <3>3. QED BY <3>1, <3>2
  <2>7. QED BY <1>9, <2>4, <2>5, <2>6 DEF CountsRight
<1>12. QED BY <1>10, <1>11 DEF Protocols

LEMMA TranslateTally ==
    ASSUME Inv, Tally, Translate
    PROVE  Tally'
<1>1. /\ pc = "split" /\ speaks \in Protocols /\ buf # << >>
      /\ buf' = Tail(buf)
      /\ tr' = Push(speaks, tr, Head(buf), Counted(speaks, tr.text))
      /\ UNCHANGED <<speaks, rest, channel, sent, counted>>
  BY Running DEF Translate
<1>2. FramesRight /\ CountsRight /\ tr.text = DeltasSent BY <1>1 DEF Tally
<1>3. FramesRight' BY <1>1, <1>2, FramesByTail
<1>4. CountsRight' BY <1>1, <1>2, TranslateCounts
<1>5. DeltasSent' = DeltasSent BY <1>1 DEF DeltasSent
<1>6. (~Ended("done") /\ ~Ended("error"))' BY <1>1 DEF Tally, Ended
<1>7. tr'.text = IF Head(buf) = "text" THEN tr.text + 1 ELSE tr.text
  <2>1. tr \in Translators /\ tr.text \in Nat BY DEF Inv, EgressTypeOK, Translators
  <2>2. Head(buf) \in FrameKinds BY <1>1, BufferTail DEF Inv
  <2>3. QED BY <1>1, <2>1, <2>2, CountedType, PushType
<1>8. CASE Head(buf) = "text"
  <2>1. pc' = "send" BY <1>8 DEF Translate
  <2>2. QED BY <1>2, <1>3, <1>4, <1>5, <1>6, <1>7, <1>8, <2>1 DEF Tally
<1>9. CASE Head(buf) \in {"start", "usage", "other"}
  <2>1. pc' = "split" BY <1>1, <1>9 DEF Translate
  <2>2. QED BY <1>2, <1>3, <1>4, <1>5, <1>6, <1>7, <1>9, <2>1 DEF Tally
<1>10. CASE Head(buf) \in {"end", "bad"}
  <2>1. \E kind \in Terminal : Conclude(kind) BY <1>10 DEF Translate, Terminal
  <2>2. \A frame \in CountFrames : Told(frame)' <=> Told(frame)
    BY <1>1, <1>2, <1>10, ToldByTail DEF CountFrames
  <2>3. QED BY <1>1, <2>1, <2>2, ConcludeTally
<1>11. Head(buf) \in FrameKinds BY <1>1, BufferTail DEF Inv
<1>12. QED BY <1>8, <1>9, <1>10, <1>11 DEF FrameKinds

\* The event leaves for the channel.
LEMMA SendEventTally ==
    ASSUME Inv, Tally, SendEvent
    PROVE  Tally'
<1> DEFINE event == Head(out)
<1>1. /\ pc \in {"send", "last"} /\ sent' = Append(sent, event) /\ sent \in Seq(EventKinds)
      /\ pc' = IF pc = "send" THEN "split" ELSE "exit"
      /\ UNCHANGED <<speaks, buf, rest, tr, billed, counted>>
  BY DEF SendEvent, Inv, EgressTypeOK
<1>2. event \in EventKinds \ {"started"} /\ (pc = "send") = (event = "delta")
  BY SendEventInv
<1>3. \A frame \in CountFrames : Told(frame)' <=> Told(frame) BY <1>1 DEF Told
<1>4. (pc = "last") => (event = "error") = (out = <<"error">>)
  BY DEF Inv, Flow
<1>5. pc = "last" => event \in {"done", "error"} BY DEF Inv, Flow
<1> HIDE DEF event
<1>6. /\ Len(sent) \in Nat /\ Len(sent') = Len(sent) + 1 /\ sent'[Len(sent) + 1] = event
      /\ sent' # << >>
  BY <1>1, <1>2
<1>7. \A kind : Ended(kind)' <=> event = kind BY <1>6 DEF Ended
<1>8. /\ DeltasSent \in Nat
      /\ DeltasSent' = IF event = "delta" THEN DeltasSent + 1 ELSE DeltasSent
  <2>1. /\ DeltasIn(sent) \in Nat
        /\ DeltasIn(Append(sent, event)) =
             IF event = "delta" THEN DeltasIn(sent) + 1 ELSE DeltasIn(sent)
    BY <1>1, <1>2, DeltasAppend
  <2>2. DeltasIn(sent)' = DeltasIn(sent') BY DEF DeltasIn
  <2>3. QED BY <1>1, <2>1, <2>2 DEF DeltasSent
<1>9. CASE pc = "send"
  <2>1. FramesRight /\ CountsRight /\ tr.text = DeltasSent + 1 BY <1>9 DEF Tally
  <2>2. CountsRight' BY <1>1, <1>3, <2>1, CountsKept
  <2>3. FramesRight' BY <1>1, <2>1 DEF FramesRight, Told
  <2>4. pc' = "split" /\ tr' = tr /\ DeltasSent' = DeltasSent + 1 BY <1>1, <1>2, <1>8, <1>9
  <2>5. (~Ended("done") /\ ~Ended("error"))' BY <1>2, <1>7, <1>9
  <2>6. QED BY <2>1, <2>2, <2>3, <2>4, <2>5 DEF Tally
<1>10. CASE pc = "last"
  <2>1. pc' = "exit" /\ event # "delta" /\ DeltasSent' = DeltasSent
    BY <1>1, <1>2, <1>8, <1>10
  <2>2. Right(billed, DeltasSent, event = "error") BY <1>4, <1>10 DEF Tally
  <2> DEFINE n == DeltasSent
             failed == event = "error"
  <2>3. Right(billed, n, failed) BY <2>2
  <2>4. DeltasSent' = n BY <2>1
  <2>5. Ended("error")' <=> failed BY <1>7
  <2>6. failed \in BOOLEAN OBVIOUS
  <2> HIDE DEF n, failed
  <2>7. \A call, m, f : Right(call, m, f) => Right(call, m, f)' BY <1>1, <1>3, RightKept
  <2>8. BilledAsDelivered'
    <3>1. billed' = billed BY <1>1
    <3>2. billed'.output = IF Told("usage")' THEN PerDelta * n ELSE (DeltaChars * n) \div 4
      BY <2>3, <2>7, <3>1 DEF Right
    <3>3. /\ billed'.billable = IF PromptTold' THEN Fresh ELSE 0
          /\ billed'.read = IF PromptTold' THEN Cached ELSE 0
      BY <2>3, <2>7, <3>1 DEF Right
    <3>4. billed'.failed = Ended("error")'
      <4>1. billed'.failed = failed BY <2>3, <3>1 DEF Right
      <4>2. QED BY <2>5, <2>6, <4>1 DEF Ended
    <3>5. QED BY <2>4, <3>2, <3>3, <3>4 DEF BilledAsDelivered
  <2>9. QED BY <2>1, <2>8 DEF Tally
<1>11. QED BY <1>1, <1>9, <1>10

\* Nobody listens: what was made is not sent, and no call is billed.
LEMMA SendRefusedTally ==
    ASSUME Inv, Tally, SendRefused
    PROVE  Tally'
<1>1. /\ pc \in {"send", "last"} /\ pc' = "exit"
      /\ UNCHANGED <<speaks, buf, rest, tr, sent, billed, counted>>
  BY DEF SendRefused
<1>2. ~Ended("done") /\ ~Ended("error") BY <1>1 DEF Tally
<1>3. (~Ended("done") /\ ~Ended("error"))' BY <1>1, <1>2 DEF Ended
<1>4. QED BY <1>1, <1>3 DEF Tally, BilledAsDelivered

\* Tally is about the task alone.
LEMMA TallyKept ==
    ASSUME Tally, UNCHANGED <<pc, speaks, buf, tr, out, sent, billed, counted>>
    PROVE  Tally'
<1>1. \A frame \in CountFrames : Told(frame)' <=> Told(frame) BY DEF Told
<1>2. DeltasSent' = DeltasSent BY DEF DeltasSent
<1>3. \A kind : Ended(kind)' = Ended(kind) BY DEF Ended
<1>4. FramesRight => FramesRight' BY DEF FramesRight, Told
<1>5. CountsRight => CountsRight' BY <1>1, CountsKept
<1>6. PromptTold' = PromptTold BY DEF PromptTold, Told
<1>7. BilledAsDelivered => BilledAsDelivered'
  BY <1>2, <1>3, <1>6 DEF BilledAsDelivered, Told
<1>8. pc = "last" => Right(billed, DeltasSent, out = <<"error">>)'
  BY <1>2, <1>6 DEF Tally, Right, Told
<1>9. QED BY <1>2, <1>3, <1>4, <1>5, <1>7, <1>8 DEF Tally

-----------------------------------------------------------------------------
(* The steps of a whole call *)

\* The stream of a call is opened by a connector of one of the protocols.
Whole == Inv /\ Tally /\ route \in Routes

\* What a step of a call is to its stream: the opening, a step of the task,
\* its provider or its client, or nothing.
StreamStep ==
    \/ \E kind \in Protocols : Open(kind)
    \/ EgressNext
    \/ UNCHANGED egressVars

LEMMA StepOfStream ==
    ASSUME route \in Routes, [Next]_vars
    PROVE  StreamStep /\ route' \in Routes
<1>1. CASE CallNext
  <2>1. CASE KeyUnreadable \/ KeyMissing \/ Post \/ PostFails
    BY <2>1 DEF KeyUnreadable, KeyMissing, Post, PostFails, Return, StreamStep
  <2>2. CASE CompleteAccepted \/ BodyFails \/ \E given \in Answers(route.connector) : BodyArrives(given)
    BY <2>2 DEF CompleteAccepted, BodyFails, BodyArrives, Return, StreamStep
  <2>3. CASE StreamAccepted
    <3>1. route.connector \in Protocols BY DEF Routes
    <3>2. QED BY <2>3, <3>1 DEF StreamAccepted, StreamStep
  <2>4. QED BY <1>1, <2>1, <2>2, <2>3 DEF CallNext
<1>2. CASE EgressNext /\ UNCHANGED callVars BY <1>2 DEF StreamStep
<1>3. CASE UNCHANGED vars BY <1>3 DEF StreamStep
<1>4. QED BY <1>1, <1>2, <1>3 DEF Next

\* The cases of StreamStep that the proofs below go through.
LEMMA StreamSteps ==
    ASSUME StreamStep
    PROVE  \/ \E kind \in Protocols : Open(kind)
           \/ \E frames \in Chunks, part \in 0 .. MaxFrameBuffer : ReadChunk(frames, part)
           \/ ReadError \/ ReadEof
           \/ SplitDone \/ Translate \/ SendEvent \/ SendRefused
           \/ ClientTakes \/ ClientLeaves
           \/ UNCHANGED egressVars
BY DEF StreamStep, EgressNext, TaskStep, ProviderStep

LEMMA StepInv ==
    ASSUME Inv, StreamStep
    PROVE  Inv'
<1>1. CASE \E kind \in Protocols : Open(kind) BY <1>1, OpenInv
<1>2. CASE \E frames \in Chunks, part \in 0 .. MaxFrameBuffer : ReadChunk(frames, part)
  BY <1>2, ReadChunkInv
<1>3. CASE ReadError \/ ReadEof BY <1>3, ReadEndsInv
<1>4. CASE SplitDone BY <1>4, SplitDoneInv
<1>5. CASE Translate BY <1>5, TranslateInv
<1>6. CASE SendEvent BY <1>6, SendEventInv
<1>7. CASE SendRefused BY <1>7, SendRefusedInv
<1>8. CASE ClientTakes \/ ClientLeaves BY <1>8, ClientInv
<1>9. CASE UNCHANGED egressVars
  BY <1>9 DEF Inv, EgressTypeOK, Flow, BufferBounded
<1>10. QED BY <1>1, <1>2, <1>3, <1>4, <1>5, <1>6, <1>7, <1>8, <1>9, StreamSteps

LEMMA StepTally ==
    ASSUME Inv, Tally, StreamStep
    PROVE  Tally'
<1>1. CASE \E kind \in Protocols : Open(kind) BY <1>1, OpenTally
<1>2. CASE \E frames \in Chunks, part \in 0 .. MaxFrameBuffer : ReadChunk(frames, part)
  BY <1>2, ReadChunkTally
<1>3. CASE ReadError \/ ReadEof BY <1>3, ReadEndsTally
<1>4. CASE SplitDone BY <1>4, SplitDoneTally
<1>5. CASE Translate BY <1>5, TranslateTally
<1>6. CASE SendEvent BY <1>6, SendEventTally
<1>7. CASE SendRefused BY <1>7, SendRefusedTally
<1>8. CASE ClientTakes \/ ClientLeaves BY <1>8, TallyKept DEF ClientTakes, ClientLeaves
<1>9. CASE UNCHANGED egressVars BY <1>9, TallyKept
<1>10. QED BY <1>1, <1>2, <1>3, <1>4, <1>5, <1>6, <1>7, <1>8, <1>9, StreamSteps

LEMMA WholeInvariant == Spec => []Whole
<1>1. Init => Whole BY InitInv, InitTally DEF Init, Whole
<1>2. Whole /\ [Next]_vars => Whole' BY StepOfStream, StepInv, StepTally DEF Whole
<1>3. QED BY <1>1, <1>2, PTL DEF Spec

\* Whatever the task does when the provider ends: only a terminal event that
\* was sent is billed for, so the bill is right wherever the task stands.
LEMMA BillAlways ==
    ASSUME Tally
    PROVE  BilledAsDelivered
<1>1. CASE pc = "exit" BY <1>1 DEF Tally
<1>2. CASE pc # "exit" BY <1>2 DEF Tally, BilledAsDelivered
<1>3. QED BY <1>1, <1>2

-----------------------------------------------------------------------------
(* Theorems *)

\* The task's variables keep their types, whatever a provider sends and a
\* client does (run_egress of connector/sse.rs).
THEOREM EgressTypeCorrect == Spec => []EgressTypeOK
<1>1. Whole => EgressTypeOK BY DEF Whole, Inv
<1>2. QED BY <1>1, WholeInvariant, PTL

\* The bytes held for an unfinished frame never pass the limit, for every
\* limit and every size of chunk (the guard of connector/sse.rs).
THEOREM BufferStaysBounded == Spec => []BufferBounded
<1>1. Whole => BufferBounded BY DEF Whole, Inv, Flow
<1>2. QED BY <1>1, WholeInvariant, PTL

\* The call in the terminal event bills what was delivered: for each of the
\* protocols, every number of tokens a provider may count and every length
\* of delta (finish of the three translators).
THEOREM BillsWhatItDelivers == Spec => []BilledAsDelivered
<1>1. Whole => BilledAsDelivered BY BillAlways DEF Whole
<1>2. QED BY <1>1, WholeInvariant, PTL

\* A step of the stream is one of the contract, or none that it sees.
LEMMA StepOfContract ==
    ASSUME Inv, StreamStep
    PROVE  [Contract!ContractNext]_(Contract!contractVars)
<1> USE DEF Contract!contractVars, Contract!ContractNext
<1>1. CASE \E kind \in Protocols : Open(kind)
  BY <1>1 DEF Open, Inv, Flow, Contract!Connect, Connected, Contract!Connected
<1>2. CASE \/ \E frames \in Chunks, part \in 0 .. MaxFrameBuffer : ReadChunk(frames, part)
           \/ ReadError \/ ReadEof \/ SplitDone \/ Translate \/ UNCHANGED egressVars
  BY <1>2 DEF ReadChunk, ReadError, ReadEof, SplitDone, Translate
<1>3. CASE SendEvent
  <2>1. Head(out) \in EventKinds \ {"started"} BY <1>3, SendEventInv
  <2>2. Contract!Emit(Head(out))
    BY <1>3 DEF SendEvent, Contract!Emit, Contract!CanSend, CanSend, Contract!Send, Send,
               Contract!Terminal, Terminal
  <2>3. QED BY <2>1, <2>2 DEF Contract!EventKinds, EventKinds, Contract!Terminal, Terminal
<1>4. CASE SendRefused
  <2>1. channel.open BY <1>4 DEF SendRefused, Inv, Flow
  <2>2. QED BY <1>4, <2>1 DEF SendRefused, Contract!GiveUp, Contract!DropSender, DropSender
<1>5. CASE ClientTakes
  BY <1>5 DEF ClientTakes, Contract!Take, Contract!CanRecv, CanRecv, Contract!Recv, Recv
<1>6. CASE ClientLeaves
  BY <1>6 DEF ClientLeaves, Contract!Leave, Contract!DropReceiver, DropReceiver
<1>7. QED BY <1>1, <1>2, <1>3, <1>4, <1>5, <1>6, StreamSteps

\* The egress task, with any provider behind it and any client before it,
\* implements the event contract that the pipeline relies on.
THEOREM EgressImplementsContract == Spec => ImplementsContract
<1>1. Init => Contract!ContractInit
  BY DEF Init, EgressInit, Contract!ContractInit, NoStream, Contract!NoStream
<1>2. Whole /\ [Next]_vars => [Contract!ContractNext]_(Contract!contractVars)
  BY StepOfStream, StepOfContract DEF Whole
<1>3. QED BY <1>1, <1>2, WholeInvariant, PTL DEF Spec, ImplementsContract, Contract!ContractSpec

-----------------------------------------------------------------------------
(* What the contract amounts to *)

\* The contract's own view of its channel, and of what was sent.
Shape ==
    /\ sent = << >> => channel = NoStream
    /\ sent # << >> => (channel.open => sent[Len(sent)] \notin Terminal)
    /\ Contract!WellFormed

\* The queue holds the end of what was sent.
EndOf(q, s) ==
    /\ Len(q) <= Len(s)
    /\ \A i \in DOMAIN q : q[i] = s[Len(s) - Len(q) + i]

\* It stays the end when it loses its head, and when both get one more event.
LEMMA EndOfTail ==
    ASSUME NEW s \in Seq(EventKinds), NEW q \in Seq(EventKinds), q # << >>, EndOf(q, s)
    PROVE  EndOf(Tail(q), s) /\ Len(Tail(q)) = Len(q) - 1
<1> DEFINE t == Tail(q)
<1>1. /\ Len(t) = Len(q) - 1 /\ DOMAIN t = 1 .. Len(q) - 1
      /\ Len(s) \in Nat /\ Len(q) \in Nat
  OBVIOUS
<1>2. \A i \in 1 .. Len(q) - 1 : t[i] = q[i + 1] /\ i + 1 \in DOMAIN q OBVIOUS
<1>3. \A i \in 1 .. Len(q) - 1 :
         /\ q[i + 1] = s[Len(s) - Len(q) + (i + 1)]
         /\ Len(s) - Len(q) + (i + 1) = Len(s) - (Len(q) - 1) + i
  BY <1>1, <1>2 DEF EndOf
<1> HIDE DEF t
<1>4. EndOf(t, s) /\ Len(t) = Len(q) - 1 BY <1>1, <1>2, <1>3 DEF EndOf
<1>5. QED BY <1>4 DEF t

LEMMA EndOfAppend ==
    ASSUME NEW s \in Seq(EventKinds), NEW q \in Seq(EventKinds), EndOf(q, s),
           NEW kind \in EventKinds
    PROVE  EndOf(Append(q, kind), Append(s, kind)) /\ Len(Append(q, kind)) = Len(q) + 1
<1> DEFINE r == Append(q, kind)
           u == Append(s, kind)
<1>1. /\ Len(r) = Len(q) + 1 /\ Len(u) = Len(s) + 1 /\ DOMAIN r = 1 .. Len(q) + 1
      /\ Len(s) \in Nat /\ Len(q) \in Nat /\ DOMAIN q = 1 .. Len(q)
  OBVIOUS
<1>2. /\ \A i \in 1 .. Len(q) : r[i] = q[i]
      /\ \A i \in 1 .. Len(s) : u[i] = s[i]
      /\ r[Len(q) + 1] = kind /\ u[Len(s) + 1] = kind
  OBVIOUS
<1>3. /\ Len(q) <= Len(s)
      /\ \A i \in 1 .. Len(q) :
            q[i] = s[Len(s) - Len(q) + i] /\ Len(s) - Len(q) + i \in 1 .. Len(s)
  BY <1>1 DEF EndOf
<1> HIDE DEF r, u
<1>4. ASSUME NEW i \in DOMAIN r PROVE r[i] = u[Len(u) - Len(r) + i]
  <2>1. Len(u) - Len(r) + i = Len(s) - Len(q) + i BY <1>1
  <2>2. CASE i = Len(q) + 1
    <3>1. Len(s) - Len(q) + i = Len(s) + 1 BY <1>1, <2>2
    <3>2. QED BY <1>2, <2>1, <2>2, <3>1
  <2>3. CASE i \in 1 .. Len(q) BY <1>1, <1>2, <1>3, <2>1, <2>3
  <2>4. QED BY <1>1, <2>2, <2>3
<1>5. EndOf(r, u) /\ Len(r) = Len(q) + 1 BY <1>1, <1>3, <1>4 DEF EndOf
<1>6. QED BY <1>5 DEF r, u

\* A stream has a queue and two flags, whoever writes it.
LEMMA StreamFields ==
    ASSUME NEW st \in Streams
    PROVE  /\ st.queue \in Seq(EventKinds) /\ Len(st.queue) \in Nat
           /\ st.open \in BOOLEAN /\ st.rx \in BOOLEAN
BY DEF Streams

LEMMA ShapeKept ==
    ASSUME Inv, Inv', Shape, [Contract!ContractNext]_(Contract!contractVars)
    PROVE  Shape'
<1> USE DEF Contract!contractVars
<1>1. /\ channel \in Streams /\ sent \in Seq(EventKinds)
      /\ channel.queue \in Seq(EventKinds) /\ channel.open \in BOOLEAN /\ channel.rx \in BOOLEAN
      /\ Len(sent) \in Nat /\ Len(channel.queue) \in Nat
  <2>1. channel \in Streams /\ sent \in Seq(EventKinds) BY DEF Inv, EgressTypeOK
  <2>2. Len(sent) \in Nat BY <2>1
  <2>3. QED BY <2>1, <2>2, StreamFields
<1>2. sent # << >> =>
        /\ \A i \in DOMAIN sent : sent[i] = "started" <=> i = 1
        /\ \A i \in DOMAIN sent : sent[i] \in Terminal => i = Len(sent)
        /\ Len(channel.queue) <= ChannelCap /\ EndOf(channel.queue, sent)
  BY DEF Shape, Contract!WellFormed, Contract!Terminal, Terminal, EndOf
<1>3. CASE Contract!Connect
  <2>1. /\ channel'.queue = <<"started">> /\ channel'.open = TRUE /\ channel'.rx = TRUE
        /\ sent' = <<"started">>
    BY <1>3 DEF Contract!Connect, Contract!Connected
  <2>2. /\ Len(sent') = 1 /\ DOMAIN sent' = {1} /\ sent'[1] = "started" /\ sent' # << >>
        /\ Len(channel'.queue) = 1 /\ DOMAIN channel'.queue = {1}
        /\ channel'.queue[1] = "started" /\ 1 - 1 + 1 = 1
    BY <2>1
  <2>3. 1 <= ChannelCap BY ChannelCapAssumption
  <2>4. QED BY <2>1, <2>2, <2>3 DEF Shape, Contract!WellFormed, Contract!Terminal, Terminal
<1>4. ASSUME NEW kind \in EventKinds \ {"started"}, Contract!Emit(kind)
      PROVE  Shape'
  <2>1. /\ channel.open /\ channel.rx /\ Len(channel.queue) < ChannelCap
        /\ channel'.queue = Append(channel.queue, kind)
        /\ channel'.open = (kind \notin Terminal) /\ channel'.rx = channel.rx
        /\ sent' = Append(sent, kind)
    BY <1>4 DEF Contract!Emit, Contract!CanSend, Contract!Send, Contract!Terminal, Terminal
  <2>2. sent # << >> BY <2>1 DEF Shape, NoStream
  <2>3. /\ Len(sent) \in Nat \ {0} /\ DOMAIN sent = 1 .. Len(sent)
        /\ DOMAIN sent' = 1 .. Len(sent) + 1 /\ Len(sent') = Len(sent) + 1
        /\ \A i \in 1 .. Len(sent) : sent'[i] = sent[i]
        /\ sent'[Len(sent) + 1] = kind /\ sent' # << >>
    BY <1>1, <2>1, <2>2
  <2>4. Len(channel'.queue) = Len(channel.queue) + 1 /\ EndOf(channel'.queue, sent')
    <3>1. kind \in EventKinds OBVIOUS
    <3>2. /\ EndOf(Append(channel.queue, kind), Append(sent, kind))
          /\ Len(Append(channel.queue, kind)) = Len(channel.queue) + 1
      BY <1>1, <1>2, <2>2, <3>1, EndOfAppend
    <3>3. QED BY <2>1, <3>2
  <2>5. \A i \in DOMAIN sent' : sent'[i] = "started" <=> i = 1
    <3>1. kind # "started" /\ Len(sent) + 1 # 1 BY <2>3
    <3>2. ASSUME NEW i \in 1 .. Len(sent) PROVE sent'[i] = "started" <=> i = 1
      BY <1>2, <2>2, <2>3, <3>2
    <3>3. QED BY <2>3, <3>1, <3>2
  <2>6. \A i \in DOMAIN sent' : sent'[i] \in Terminal => i = Len(sent')
    <3>1. ASSUME NEW i \in 1 .. Len(sent) PROVE sent'[i] \notin Terminal
      BY <1>2, <2>1, <2>2, <2>3, <3>1 DEF Shape
    <3>2. QED BY <2>3, <3>1
  <2>7. Len(channel'.queue) <= ChannelCap
    BY <1>1, <2>1, <2>4, ChannelCapAssumption
  <2>8. channel'.open <=> sent'[Len(sent')] \notin Terminal BY <2>1, <2>3
  <2>9. QED BY <2>3, <2>4, <2>5, <2>6, <2>7, <2>8 DEF Shape, Contract!WellFormed,
               Contract!Terminal, Terminal, EndOf
<1>5. CASE Contract!Take
  <2>1. /\ channel.rx /\ channel.queue # << >>
        /\ channel'.queue = Tail(channel.queue)
        /\ channel'.open = channel.open /\ channel'.rx = channel.rx /\ sent' = sent
    BY <1>5 DEF Contract!Take, Contract!CanRecv, Contract!Recv
  <2>2. sent # << >> BY <2>1 DEF Shape, NoStream
  <2>3. Len(channel'.queue) = Len(channel.queue) - 1 /\ EndOf(channel'.queue, sent)
    BY <1>1, <1>2, <2>1, <2>2, EndOfTail
  <2>4. Len(channel'.queue) <= ChannelCap
    BY <1>1, <1>2, <2>2, <2>3, ChannelCapAssumption
  <2>5. QED BY <2>1, <2>2, <2>3, <2>4 DEF Shape, Contract!WellFormed, EndOf
<1>6. CASE Contract!Leave
  <2>1. /\ channel.rx /\ channel'.queue = << >> /\ channel'.open = channel.open
        /\ channel'.rx = FALSE /\ sent' = sent
    BY <1>6 DEF Contract!Leave, Contract!DropReceiver
  <2>2. sent # << >> BY <2>1 DEF Shape, NoStream
  <2>3. Len(channel'.queue) = 0 /\ DOMAIN channel'.queue = {} BY <2>1
  <2>4. 0 <= ChannelCap /\ 0 <= Len(sent) BY <1>1, ChannelCapAssumption
  <2>5. QED BY <2>1, <2>2, <2>3, <2>4 DEF Shape, Contract!WellFormed
<1>7. CASE Contract!GiveUp
  <2>1. /\ channel.open /\ ~channel.rx /\ channel'.queue = channel.queue
        /\ channel'.open = FALSE /\ channel'.rx = channel.rx /\ sent' = sent
    BY <1>7 DEF Contract!GiveUp, Contract!DropSender
  <2>2. sent # << >> BY <2>1 DEF Shape, NoStream
  <2>3. QED BY <2>1, <2>2 DEF Shape, Contract!WellFormed
<1>8. CASE UNCHANGED Contract!contractVars
  BY <1>8 DEF Shape, Contract!WellFormed
<1>9. QED BY <1>3, <1>4, <1>5, <1>6, <1>7, <1>8 DEF Contract!ContractNext,
             Contract!EventKinds, EventKinds, Contract!Terminal, Terminal

\* So every stream begins with Started, has at most one terminal event and
\* nothing after it, and its client reads the events in the order they were
\* sent, none lost: the contract of section 6.1, of the code's own stream.
THEOREM StreamsWellFormed == Spec => []Contract!WellFormed
<1>1. Init => Shape
  BY DEF Init, EgressInit, Shape, Contract!WellFormed, NoStream
<1>2. Whole /\ Shape /\ [Next]_vars /\ Whole' => Shape'
  BY StepOfStream, StepOfContract, ShapeKept DEF Whole
<1>3. Shape => Contract!WellFormed BY DEF Shape
<1>4. QED BY <1>1, <1>2, <1>3, WholeInvariant, PTL DEF Spec

-----------------------------------------------------------------------------
(* The call *)

\* What the state of a call keeps: the request as it came until it is posted,
\* what was made of it while the answer is awaited, and what was made of the
\* answer once it is there.
Call ==
    /\ route \in Routes
    /\ stage \in {"resolve", "post", "body", "stream", "returned"}
    /\ stage = "stream" <=> pc # "off"
    /\ stage \in {"resolve", "post"} =>
          body \in Bodies(route.client) /\ model \in [secret : Secrets, default : Defaults]
    /\ posted = IF stage = "post"
                  THEN BuildRequest(route.connector, ParseRequest(route.client, body),
                                    AsU32(model.default))
                  ELSE NoPost
    /\ stage = "returned" <=> result # NoResult
    /\ result.outcome = "answer" =>
          /\ answer \in Answers(route.connector)
          /\ result = [outcome  |-> "answer",
                       response |-> ParseAnswer(route.connector, answer)]

\* A stream that was opened is never closed for the call.
LEMMA StreamStays ==
    ASSUME EgressNext, pc # "off"
    PROVE  pc' # "off"
<1>1. CASE TaskStep
  BY <1>1 DEF TaskStep, SplitDone, Translate, Conclude, SendEvent, SendRefused
<1>2. CASE ProviderStep
  BY <1>2 DEF ProviderStep, ReadChunk, ReadError, ReadEof, Conclude
<1>3. CASE ClientTakes \/ ClientLeaves BY <1>3 DEF ClientTakes, ClientLeaves
<1>4. CASE UNCHANGED egressVars BY <1>4
<1>5. QED BY <1>1, <1>2, <1>3, <1>4 DEF EgressNext

LEMMA CallStep ==
    ASSUME Call, [Next]_vars
    PROVE  Call'
<1> USE DEF Call
<1>0. route' = route
  BY DEF Next, CallNext, KeyUnreadable, KeyMissing, Post, PostFails, CompleteAccepted,
         StreamAccepted, BodyFails, BodyArrives, Return
<1>1. CASE KeyUnreadable \/ KeyMissing \/ PostFails
  <2>1. /\ stage \in {"resolve", "post"} /\ stage' = "returned" /\ posted' = NoPost
        /\ pc' = pc
        /\ \E kind \in {"hard_fail", "http"} : result' = [outcome |-> kind]
    BY <1>1 DEF KeyUnreadable, KeyMissing, PostFails, Return, Forget, Failed
  <2>2. result' # NoResult /\ result'.outcome # "answer" BY <2>1 DEF NoResult
  <2>3. QED BY <1>0, <2>1, <2>2
<1>2. CASE Post
  BY <1>0, <1>2 DEF Post, DefaultMaxTokens
<1>3. CASE CompleteAccepted
  BY <1>0, <1>3 DEF CompleteAccepted, Forget
<1>4. CASE StreamAccepted
  BY <1>0, <1>4 DEF StreamAccepted, Forget, Open
<1>5. CASE BodyFails
  <2>1. /\ stage = "body" /\ stage' = "returned" /\ posted' = posted /\ pc' = pc
        /\ result' = [outcome |-> "http"]
    BY <1>5 DEF BodyFails, Return, Failed
  <2>2. result' # NoResult /\ result'.outcome # "answer" BY <2>1 DEF NoResult
  <2>3. QED BY <1>0, <2>1, <2>2
<1>6. ASSUME NEW given \in Answers(route.connector), BodyArrives(given)
      PROVE  Call'
  <2>1. /\ stage = "body" /\ stage' = "returned" /\ posted' = posted /\ pc' = pc
        /\ answer' = given
        /\ result' = [outcome  |-> "answer",
                      response |-> ParseAnswer(route.connector, given)]
    BY <1>6 DEF BodyArrives, Return
  <2>2. result' # NoResult BY <2>1 DEF NoResult
  <2>3. QED BY <1>0, <2>1, <2>2
<1>7. CASE stage = "stream" /\ EgressNext /\ UNCHANGED callVars
  <2>1. pc' # "off" BY <1>7, StreamStays
  <2>2. QED BY <1>7, <2>1
<1>8. CASE UNCHANGED vars BY <1>8
<1>9. QED BY <1>1, <1>2, <1>3, <1>4, <1>5, <1>6, <1>7, <1>8 DEF Next, CallNext

LEMMA CallInvariant == Spec => []Call
<1>1. Init => Call
  BY DEF Init, EgressInit, Call, NoResult
<1>2. QED BY <1>1, CallStep, PTL DEF Spec

\* Between any two protocols, for a conversation of any length and of any words,
\* no text of a message is lost, moved or said by another, and of instructions
\* only those that an Anthropic client writes as blocks are, all of them
\* (SystemInBlocks); and a limit below 2^32 arrives as it was written, the
\* client's before the operator's (parse_* of ingress/*.rs, resolve of
\* router.rs, build_* of connector/*.rs).
THEOREM ConversationCorrect == Spec => []ConversationArrives
<1>1. Call => ConversationArrives
  <2>1. SUFFICES ASSUME Call, stage = "post" PROVE SaidInOrder /\ LimitArrives
    BY DEF ConversationArrives
  <2>2. model.default \in Nat \cup {Unset} BY <2>1, ExchangeAssumption DEF Call
  <2>3. QED BY <2>1, <2>2, PostedWell DEF Call
<1>2. QED BY <1>1, CallInvariant, PTL

\* So every variable of a call keeps its type, and a call is in one place:
\* its stream is open or it has returned (complete and stream of
\* connector/*.rs).
THEOREM ExchangeTypeCorrect == Spec => []ExchangeTypeOK
<1>1. Call => /\ posted.system \in Seq(Words \cup {NewLine})
              /\ \A i \in DOMAIN posted.turns : posted.turns[i].text \in Seq(Words)
              /\ posted.limit \in Nat \cup {Unset}
  <2>1. SUFFICES ASSUME Call
                 PROVE  /\ posted.system \in JoinedTexts /\ posted.turns \in Seq(Items)
                        /\ posted.limit \in Nat \cup {Unset}
    <3>1. \A item \in Items : item.text \in Seq(Words) BY DEF Items
    <3>2. \A turns \in Seq(Items) : \A i \in DOMAIN turns : turns[i] \in Items OBVIOUS
    <3>3. QED BY <3>1, <3>2 DEF JoinedTexts
  <2>2. CASE stage = "post"
    <3>1. model.default \in Nat \cup {Unset} BY <2>1, <2>2, ExchangeAssumption DEF Call
    <3>2. QED BY <2>1, <2>2, <3>1, PostedWell DEF Call
  <2>3. CASE stage # "post"
    BY <2>1, <2>3 DEF Call, NoPost, JoinedTexts
  <2>4. QED BY <2>2, <2>3
<1>2. Whole /\ Call => ExchangeTypeOK BY <1>1 DEF Whole, Inv, Call, ExchangeTypeOK
<1>3. QED BY <1>2, WholeInvariant, CallInvariant, PTL

-----------------------------------------------------------------------------
(* Answers *)

\* The call of an answer: its text is not part of it, and its counts are those
\* of the provider, or zeros.
LEMMA AnswerCall ==
    ASSUME NEW kind \in Protocols, NEW given \in Answers(kind),
           NEW call, call = ParseAnswer(kind, given).call
    PROVE  LET told == given.counts # Unset IN
           /\ CountsOf(call) \in Counts
           /\ told => call.input = given.counts.input /\ call.output = given.counts.output
           /\ call.billable = IF told THEN Fresh ELSE 0
           /\ call.read = IF told THEN Cached ELSE 0
           /\ call.write = IF told /\ kind = "anthropic" THEN Written ELSE 0
<1> DEFINE said == SaidBy(given)
           told == given.counts # Unset
<1>1. told => \E deltas \in 0 .. MaxText : given.counts = Counted(kind, deltas)
  BY DEF Answers
<1>2. /\ said \in Counts
      /\ told => said = given.counts
      /\ said.read = IF told THEN Cached ELSE 0
      /\ said.write = IF told /\ kind = "anthropic" THEN Written ELSE 0
      /\ said.input = IF ~told THEN 0
                      ELSE IF kind = "anthropic" THEN Fresh ELSE Fresh + Cached
  <2>1. CASE told
    <3>1. PICK deltas \in 0 .. MaxText : given.counts = Counted(kind, deltas) BY <1>1, <2>1
    <3>2. deltas \in Nat BY EgressAssumption
    <3>3. said = Counted(kind, deltas) BY <2>1, <3>1 DEF SaidBy
    <3>4. said \in Counts BY <3>2, <3>3, CountedType
    <3>5. QED BY <2>1, <3>1, <3>3, <3>4 DEF Counted
  <2>2. CASE ~told
    <3>1. said = NoCounts BY <2>2 DEF SaidBy
    <3>2. QED BY <2>2, <3>1 DEF NoCounts, Counts
  <2>3. QED BY <2>1, <2>2
<1>3. /\ said.input \in Nat /\ said.output \in Nat /\ said.read \in Nat /\ said.write \in Nat
  BY <1>2 DEF Counts
<1>4. Fresh \in Nat /\ Cached \in Nat BY CountsAssumption
<1> HIDE DEF said, told
<1>5. CASE kind \in {"chat", "responses"}
  <2>1. call = OpenAiCall(said.input, said.output, said.read)
    BY <1>5 DEF ParseAnswer, ParseChatAnswer, ParseResponsesAnswer, Response, said
  <2>2. /\ call.input = said.input /\ call.output = said.output /\ call.read = said.read
        /\ call.write = 0
        /\ call.billable = SaturatingSub(said.input, said.read)
    BY <2>1 DEF OpenAiCall
  <2>3. call.billable = IF told THEN Fresh ELSE 0
    BY <1>2, <1>4, <1>5, <2>2 DEF SaturatingSub
  <2>4. CountsOf(call) \in Counts BY <1>3, <2>2 DEF CountsOf, Counts
  <2>5. QED BY <1>2, <1>5, <2>2, <2>3, <2>4 DEF told
<1>6. CASE kind = "anthropic"
  <2>1. call = AnthropicCall(said.input, said.output, said.read, said.write)
    BY <1>6 DEF ParseAnswer, ParseAnthropicAnswer, Response, said
  <2>2. /\ call.input = said.input /\ call.output = said.output /\ call.read = said.read
        /\ call.write = said.write /\ call.billable = said.input
    BY <2>1 DEF AnthropicCall
  <2>3. CountsOf(call) \in Counts BY <1>3, <2>2 DEF CountsOf, Counts
  <2>4. QED BY <1>2, <1>6, <2>2, <2>3 DEF told
<1>7. QED BY <1>5, <1>6 DEF Protocols

\* An answer that is written as a stream is one delta and its end.
LEMMA FullRead ==
    ASSUME NEW client \in Protocols, NEW said, CountsOf(said) \in Counts,
           client = "chat" \/ said.output > 0
    PROVE  Reading(client, FramesWritten(client, FullEvents), said).output = said.output
<1> DEFINE events == <<"started", "delta">>
<1>1. events \in Seq(EventKinds) /\ FullEvents = Append(events, "done")
  BY DEF EventKinds, FullEvents
<1>2. QED BY <1>1, DoneRead

LEMMA FullFrames ==
    ASSUME NEW client \in Protocols
    PROVE  LET frames == FramesWritten(client, FullEvents) IN
           TextFrames(frames) = 1 /\ "bad" \notin ToSet(frames)
<1> DEFINE frames == FramesWritten(client, FullEvents)
<1>1. FullEvents \in Seq(EventKinds) BY DEF FullEvents, EventKinds, Terminal
<1>2. CountsOf(NoCounts) \in Counts BY DEF CountsOf, NoCounts, Counts
<1>3. /\ TextFrames(frames) = DeltasIn(FullEvents)
      /\ Holds(frames, "bad") <=> Holds(FullEvents, "error")
  <2>1. ReadSoFar(client, NoCounts, FullEvents) BY <1>1, <1>2, EventsRead
  <2>2. QED BY <2>1 DEF ReadSoFar
<1>4. DeltasIn(FullEvents) = 1
  <2>1. {i \in DOMAIN FullEvents : FullEvents[i] = "delta"} = {2} BY DEF FullEvents
  <2>2. QED BY <2>1, FS_Singleton DEF DeltasIn
<1>5. ~Holds(FullEvents, "error") BY DEF Holds, FullEvents
<1>6. "bad" \in ToSet(frames) => Holds(frames, "bad") BY DEF ToSet, Holds
<1>7. QED BY <1>3, <1>4, <1>5, <1>6

\* The client of a complete answer has all of its text and the provider's
\* counts, the ledger its tokens by their price, and a client that wanted a
\* stream reads the same output: for every answer of every provider, however
\* it counts (parse_* of connector/*.rs, format_* and stream_from_full).
THEOREM AnswerCorrect == Spec => []AnswerReturned
<1>1. Call => AnswerReturned
  <2>1. SUFFICES ASSUME Call, stage = "returned", result.outcome = "answer"
                 PROVE  AnswerReturned
    BY DEF AnswerReturned
  <2> DEFINE kind == route.connector
             client == route.client
             given == answer
             response == ParseAnswer(kind, given)
             call == response.call
             frames == FramesWritten(client, FullEvents)
  <2>2. kind \in Protocols /\ client \in Protocols BY <2>1 DEF Call, Routes
  <2>3. given \in Answers(kind) BY <2>1 DEF Call
  <2>4. result.response = response BY <2>1 DEF Call
  <2>5. response.text = OnlyWords(given.parts)
    BY <2>2 DEF ParseAnswer, ParseChatAnswer, ParseResponsesAnswer, ParseAnthropicAnswer,
                Response, ContentToText, OnlyWords, Protocols
  <2> HIDE DEF response
  <2>6. /\ CountsOf(call) \in Counts
        /\ given.counts # Unset =>
              call.input = given.counts.input /\ call.output = given.counts.output
        /\ call.billable = IF given.counts # Unset THEN Fresh ELSE 0
        /\ call.read = IF given.counts # Unset THEN Cached ELSE 0
        /\ call.write = IF given.counts # Unset /\ kind = "anthropic" THEN Written ELSE 0
    BY <2>2, <2>3, AnswerCall DEF response
  <2>7. FormatResponse(response).text = response.text
        /\ FormatResponse(response).input = call.input
        /\ FormatResponse(response).output = call.output
    BY DEF FormatResponse
  <2>8. TextFrames(frames) = 1 /\ "bad" \notin ToSet(frames) BY <2>2, FullFrames
  <2>9. call.output > 0 \/ client = "chat" => Reading(client, frames, call).output = call.output
    BY <2>2, <2>6, FullRead
  <2> HIDE DEF frames, call
  <2>10. QED
    BY <2>4, <2>5, <2>6, <2>7, <2>8, <2>9 DEF AnswerReturned, frames, call
<1>2. QED BY <1>1, CallInvariant, PTL

\* The end of a stream, against its events.
LEMMA EndedWell ==
    ASSUME Inv, Contract!WellFormed
    PROVE  Ended("error") <=> Holds(sent, "error")
<1>1. sent \in Seq(EventKinds) BY DEF Inv, EgressTypeOK
<1>2. Len(sent) \in Nat /\ DOMAIN sent = 1 .. Len(sent) /\ (sent # << >> => Len(sent) \in DOMAIN sent)
  BY <1>1
<1>3. ASSUME Holds(sent, "error") PROVE Ended("error")
  <2>1. PICK i \in DOMAIN sent : sent[i] = "error" BY <1>3 DEF Holds
  <2>2. sent # << >> BY <2>1
  <2>3. i = Len(sent) BY <2>1, <2>2 DEF Contract!WellFormed, Contract!Terminal
  <2>4. QED BY <2>1, <2>2, <2>3 DEF Ended
<1>4. Ended("error") => Holds(sent, "error") BY <1>2 DEF Ended, Holds
<1>5. QED BY <1>3, <1>4

\* Two gateways in a row tell a client what one does: the frames that one
\* writes of a stream, a reader of the same protocol translates back into as
\* many deltas, the same counts and the same end, for every stream the egress
\* task may send (sse_lines of ingress/handler.rs against the translators).
THEOREM GatewaysCompose == Spec => []ReadBackSame
<1>1. Whole /\ Contract!WellFormed => ReadBackSame
  <2>1. SUFFICES ASSUME Whole, Contract!WellFormed, NEW client \in Protocols
                 PROVE  LET frames == FramesWritten(client, sent)
                            read   == Reading(client, frames, billed)
                        IN  /\ TextFrames(frames) = DeltasSent
                            /\ Ended("error") <=> \E i \in DOMAIN frames : frames[i] = "bad"
                            /\ Ended("done") =>
                                 /\ read.output = billed.output
                                 /\ read.input = IF client = "anthropic" THEN 0 ELSE billed.input
    BY DEF ReadBackSame
  <2> DEFINE frames == FramesWritten(client, sent)
             read == Reading(client, frames, billed)
  <2>2. sent \in Seq(EventKinds) BY <2>1 DEF Whole, Inv, EgressTypeOK
  <2>3. CountsOf(billed) \in Counts
    BY <2>1 DEF Whole, Inv, EgressTypeOK, CountsOf, Counts
  <2>4. /\ TextFrames(frames) = DeltasSent
        /\ Holds(frames, "bad") <=> Holds(sent, "error")
    <3>1. ReadSoFar(client, billed, sent) BY <2>2, <2>3, EventsRead
    <3>2. QED BY <3>1 DEF ReadSoFar, DeltasSent
  <2>5. Ended("error") <=> \E i \in DOMAIN frames : frames[i] = "bad"
    BY <2>1, <2>4, EndedWell DEF Whole, Holds
  <2>6. ASSUME Ended("done")
        PROVE  /\ read.output = billed.output
               /\ read.input = IF client = "anthropic" THEN 0 ELSE billed.input
    <3>1. PICK front \in Seq(EventKinds) : sent = Append(front, "done")
      <4>1. sent # << >> /\ sent[Len(sent)] = "done" BY <2>6 DEF Ended
      <4>2. PICK front \in Seq(EventKinds), last \in EventKinds : sent = Append(front, last)
        BY <2>2, <4>1, SequenceEmptyOrAppend
      <4>3. Append(front, last)[Len(Append(front, last))] = last OBVIOUS
      <4>4. QED BY <4>1, <4>2, <4>3
    <3>2. /\ read.output = IF client = "chat" \/ billed.output > 0 THEN billed.output
                           ELSE (DeltaChars * DeltasSent) \div 4
          /\ read.input = IF client = "anthropic" THEN 0 ELSE billed.input
      BY <2>3, <3>1, DoneRead DEF DeltasSent
    <3>3. billed.output \in Nat BY <2>1 DEF Whole, Inv, EgressTypeOK
    <3>4. billed.output = IF Told("usage") THEN PerDelta * DeltasSent
                          ELSE (DeltaChars * DeltasSent) \div 4
      BY <2>1, <2>6, BillAlways DEF Whole, BilledAsDelivered
    <3>5. billed.output = 0 => (DeltaChars * DeltasSent) \div 4 = 0
      <4>1. DeltasSent \in Nat
        <5>1. "done" \in EventKinds BY DEF EventKinds, Terminal
        <5>2. QED BY <2>2, <5>1, DeltasAppend DEF DeltasSent
      <4>2. CASE Told("usage")
        <5>1. billed.output = 0 => DeltasSent = 0
          BY <3>4, <4>1, <4>2, CountsAssumption
        <5>2. (DeltaChars * 0) \div 4 = 0 BY EstimateOfNone
        <5>3. QED BY <5>1, <5>2
      <4>3. CASE ~Told("usage") BY <3>4, <4>3
      <4>4. QED BY <4>2, <4>3
    <3> HIDE DEF read
    <3>6. QED BY <3>2, <3>3, <3>5
  <2>7. QED BY <2>4, <2>5, <2>6
<1>2. QED BY <1>1, WholeInvariant, StreamsWellFormed, PTL
=============================================================================
