------------------------- MODULE ExchangeProperties -------------------------
(***************************************************************************)
(* What an upstream call owes its client, its provider and the pipeline.   *)
(***************************************************************************)
EXTENDS Exchange

ExchangeTypeOK ==
    /\ EgressTypeOK
    /\ stage \in {"resolve", "post", "body", "stream", "returned"}
    /\ posted.system \in Seq(Words \cup {NewLine})
    /\ \A i \in DOMAIN posted.turns : posted.turns[i].text \in Seq(Words)
    /\ posted.limit \in Nat \cup {Unset}
    /\ stage = "stream" <=> pc # "off"
    /\ stage = "returned" <=> result # NoResult

-----------------------------------------------------------------------------
(* The request *)

OnlyWords(parts) == Only(parts, Words)

\* Where a client of each protocol writes its instructions.
InstructionMessages ==
    IF route.client = "anthropic" THEN {} ELSE [role : {"system"}, content : Contents]

Instructions ==
    LET said == Only(body.messages, InstructionMessages)
        texts == [i \in DOMAIN said |-> OnlyWords(said[i].content.parts)]
    IN  IF route.client = "anthropic"
          THEN OnlyWords(body.system.parts)
          ELSE FlattenSeq(texts)

\* The one way to lose them: parse_request of Anthropic reads a system that is
\* a string, and drops one that is an array of blocks, which the head of its
\* file says it supports.
SystemInBlocks == route.client = "anthropic" /\ body.system.form = "blocks"

InstructionsDue == IF SystemInBlocks THEN << >> ELSE Instructions

Said == Only(body.messages, Messages \ InstructionMessages)

InstructionsPosted ==
    LET turns == Only(posted.turns, SystemItems)
    IN  OnlyWords(posted.system) \o FlattenSeq([i \in DOMAIN turns |-> turns[i].text])

TurnsPosted == Only(posted.turns, Items \ SystemItems)

\* Between any two protocols, the client's instructions reach the provider as
\* instructions, unless they are a system in blocks, of which none arrives, and
\* its messages as messages: each in its place, with all of its text, and said
\* by the assistant if and only if the assistant said it.  Nothing else is lost
\* when system messages are joined into one field, taken out of a list, or put
\* into one.
SaidInOrder ==
    /\ InstructionsPosted = InstructionsDue
    /\ Len(TurnsPosted) = Len(Said)
    /\ \A i \in DOMAIN Said :
          /\ TurnsPosted[i].text = OnlyWords(Said[i].content.parts)
          /\ TurnsPosted[i].role = "assistant" <=> Said[i].role = "assistant"

\* The client's limit on tokens counts before the operator's, and a provider
\* that must have one has one.  Only a limit below 2^32 is sure to arrive: both
\* are cut to 32 bits, the client's by the parser and the operator's by resolve.
LimitArrives ==
    /\ body.limit \in 0 .. U32 - 1 => posted.limit = body.limit
    /\ body.limit = Unset /\ model.default \in 0 .. U32 - 1 => posted.limit = model.default
    /\ route.connector = "anthropic" => posted.limit # Unset

ConversationArrives == stage = "post" => SaidInOrder /\ LimitArrives

-----------------------------------------------------------------------------
(* A complete answer *)

\* What a reader of the protocol makes of frames that carry these counts: how
\* much text, which counts, and how it ends.
Reading(kind, frames, said) ==
    LET step(heard, frame) == Push(kind, heard, frame, said)
    IN  Finish(kind, FoldLeft(step, NewTranslator, frames))

TextFrames(frames) == Cardinality({i \in DOMAIN frames : frames[i] = "text"})

\* The frames that the gateway writes for these events.
FramesWritten(client, events) ==
    FlattenSeq([i \in DOMAIN events |-> SseLines(client, events[i])])

\* The client of a complete answer has all of the provider's text and its
\* counts, and the ledger the tokens by their price: those that came from no
\* cache, those that did, and those written into it, whichever way the
\* provider adds them up.  A client that wanted a stream reads one delta, the
\* end, and the same output; where the output is zero, it may estimate one.
AnswerReturned ==
    stage = "returned" /\ result.outcome = "answer" =>
        LET got  == FormatResponse(result.response)
            call == result.response.call
            told == answer.counts # Unset
            frames == FramesWritten(route.client, FullEvents)
        IN  /\ got.text = OnlyWords(answer.parts)
            /\ told => got.input = answer.counts.input /\ got.output = answer.counts.output
            /\ call.billable = IF told THEN Fresh ELSE 0
            /\ call.read = IF told THEN Cached ELSE 0
            /\ call.write = IF told /\ route.connector = "anthropic" THEN Written ELSE 0
            /\ TextFrames(frames) = 1 /\ "bad" \notin ToSet(frames)
            /\ call.output > 0 \/ route.client = "chat" =>
                  Reading(route.client, frames, call).output = got.output

-----------------------------------------------------------------------------
(* A stream *)

Contract == INSTANCE StreamContract WITH ch <- channel, sent <- sent

\* The call implements the stream contract: nothing is sent before the status
\* is known, and every path out of run_egress goes through exactly one
\* terminal event, unless the receiver is gone.
ImplementsContract == Contract!ContractSpec

DeltasIn(events) == Cardinality({i \in DOMAIN events : events[i] = "delta"})

DeltasSent == DeltasIn(sent)

Ended(kind) == sent # << >> /\ sent[Len(sent)] = kind

\* The translator has had this frame.
Told(frame) == frame \in counted /\ \A i \in DOMAIN buf : buf[i] # frame

\* The translator has had the frame in which a provider counts the prompt.
PromptTold == IF speaks = "anthropic" THEN Told("start") ELSE Told("usage")

\* The terminal event bills exactly what was delivered, whole or broken off:
\* the output by the provider's count if it came and by the estimate over all
\* deltas that were sent if not, the prompt by what was said of it, with
\* cached tokens in their own column; and it is a failure if it says Error.
BilledAsDelivered ==
    Ended("done") \/ Ended("error") =>
        /\ billed.output = IF Told("usage") THEN PerDelta * DeltasSent
                                            ELSE (DeltaChars * DeltasSent) \div 4
        /\ billed.billable = IF PromptTold THEN Fresh ELSE 0
        /\ billed.read = IF PromptTold THEN Cached ELSE 0
        /\ billed.failed = Ended("error")

\* Bytes held for a frame that is not closed stay within the limit for as
\* long as the task reads.
BufferBounded == pc \in {"read", "split", "send"} => rest + Len(buf) <= MaxFrameBuffer

\* What the gateway writes to a client of any protocol, another gateway reads
\* with its connector for that protocol as the same answer: as many deltas,
\* the same counts of a stream that is done, and an end of the same kind.
ReadBackSame ==
    \A client \in Protocols :
        LET frames == FramesWritten(client, sent)
            read   == Reading(client, frames, billed)
        IN  /\ TextFrames(frames) = DeltasSent
            /\ Ended("error") <=> \E i \in DOMAIN frames : frames[i] = "bad"
            /\ Ended("done") =>
                  /\ read.output = billed.output
                  /\ read.input = IF client = "anthropic" THEN 0 ELSE billed.input

\* A stream that was opened comes to an end: the task goes away, and the
\* upstream connection with it, whether the client reads on, reads slowly or
\* leaves; and a client that stays has read a terminal event.
StreamEnds ==
    stage = "stream" ~>
        /\ pc = "exit"
        /\ channel.rx => (Ended("done") \/ Ended("error")) /\ channel.queue = << >>
=============================================================================
