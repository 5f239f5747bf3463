--------------------------- MODULE SseTranslation ---------------------------
(***************************************************************************)
(* Streams in three protocols: how a connector's translator (connector/    *)
(* chat.rs, anthropic.rs, responses.rs) turns a provider's frames into     *)
(* events and counts, and which frames the gateway writes for an event     *)
(* (sse_events of ingress/openai_chat.rs, openai_responses.rs and          *)
(* anthropic.rs).  Text is measured in deltas of one length.               *)
(***************************************************************************)
EXTENDS StreamOps

CONSTANTS
    Fresh,        \* tokens of the prompt that came from no cache
    Cached,       \* tokens of the prompt that came from the provider's cache
    Written,      \* tokens an Anthropic provider put into its cache
    PerDelta,     \* tokens of a delta, as a provider counts them
    DeltaChars    \* characters of a delta

ASSUME CountsAssumption ==
    /\ Fresh \in Nat /\ Cached \in Nat /\ Written \in Nat
    /\ PerDelta \in Nat \ {0} /\ DeltaChars \in Nat

\* ConnectorKind of a provider, and Proto of a client.
Protocols == {"chat", "responses", "anthropic"}

\* What a complete frame holds: an Anthropic stream's opening with the counts
\* of the prompt, a text delta, the counts at the end, a comment or an event
\* without effect, [DONE], or what cannot be translated (no UTF-8, no JSON,
\* the provider's error object).
FrameKinds == {"start", "text", "usage", "other", "end", "bad"}

Counts == [input : Nat, output : Nat, read : Nat, write : Nat]

\* What a provider counts for its answer of so many deltas.  Anthropic leaves
\* cached tokens out of its input tokens, OpenAI counts them in.
Counted(kind, deltas) ==
    [input  |-> IF kind = "anthropic" THEN Fresh ELSE Fresh + Cached,
     output |-> PerDelta * deltas,
     read   |-> Cached,
     write  |-> IF kind = "anthropic" THEN Written ELSE 0]

-----------------------------------------------------------------------------
(* The translators: push, finish *)

Translators ==
    [text : Nat, input : Nat, output : Nat, read : Nat, write : Nat, known : BOOLEAN]

NewTranslator ==
    [text |-> 0, input |-> 0, output |-> 0, read |-> 0, write |-> 0, known |-> FALSE]

AddText(tr) == [tr EXCEPT !.text = @ + 1]

PushChat(tr, frame, said) ==
    CASE frame = "text"  -> AddText(tr)
      [] frame = "usage" -> [tr EXCEPT !.input = said.input, !.output = said.output,
                                       !.read = said.read, !.known = TRUE]
      [] OTHER           -> tr

\* response.completed and response.incomplete carry the counts.
PushResponses(tr, frame, said) ==
    CASE frame = "text"  -> AddText(tr)
      [] frame = "usage" -> [tr EXCEPT !.input = said.input, !.output = said.output,
                                       !.read = said.read, !.known = TRUE]
      [] OTHER           -> tr

\* message_start carries the counts of the prompt, message_delta the output.
PushAnthropic(tr, frame, said) ==
    CASE frame = "text"  -> AddText(tr)
      [] frame = "start" -> [tr EXCEPT !.input = said.input, !.read = said.read,
                                       !.write = said.write, !.known = TRUE]
      [] frame = "usage" -> [tr EXCEPT !.output = said.output, !.known = TRUE]
      [] OTHER           -> tr

\* The trait object behind Box<dyn SseTranslator>.
Push(kind, tr, frame, said) ==
    CASE kind = "chat"      -> PushChat(tr, frame, said)
      [] kind = "responses" -> PushResponses(tr, frame, said)
      [] kind = "anthropic" -> PushAnthropic(tr, frame, said)

\* A token for four characters.
Estimate(tr) == (DeltaChars * tr.text) \div 4

SaturatingSub(a, b) == IF a > b THEN a - b ELSE 0

\* ModelUsage, as far as a connector fills it.
Calls == [input : Nat, output : Nat, billable : Nat, read : Nat, write : Nat]

\* OpenAI's input tokens include the cached ones.
OpenAiCall(input, output, read) ==
    [input |-> input, output |-> output,
     billable |-> SaturatingSub(input, read), read |-> read, write |-> 0]

AnthropicCall(input, output, read, write) ==
    [input |-> input, output |-> output,
     billable |-> input, read |-> read, write |-> write]

FinishChat(tr) ==
    OpenAiCall(tr.input, IF tr.known THEN tr.output ELSE Estimate(tr), tr.read)

FinishResponses(tr) ==
    OpenAiCall(tr.input, IF tr.output > 0 THEN tr.output ELSE Estimate(tr), tr.read)

FinishAnthropic(tr) ==
    AnthropicCall(tr.input, IF tr.output > 0 THEN tr.output ELSE Estimate(tr),
                  tr.read, tr.write)

Finish(kind, tr) ==
    CASE kind = "chat"      -> FinishChat(tr)
      [] kind = "responses" -> FinishResponses(tr)
      [] kind = "anthropic" -> FinishAnthropic(tr)

-----------------------------------------------------------------------------
(* The gateway's own frames, for its clients *)

\* Mutant of ChatFrames: the last chunk of an answer has no counts.
ChatFramesUncounted(event) ==
    CASE event = "started" -> << >>
      [] event = "delta"   -> <<"text">>
      [] event = "done"    -> <<"other", "end">>
      [] event = "error"   -> <<"bad", "end">>

ChatFrames(event) ==
    CASE event = "started" -> << >>
      [] event = "delta"   -> <<"text">>
      [] event = "done"    -> <<"usage", "end">>
      [] event = "error"   -> <<"bad", "end">>

ResponsesFrames(event) ==
    CASE event = "started" -> << >>
      [] event = "delta"   -> <<"text">>
      [] event = "done"    -> <<"usage">>
      [] event = "error"   -> <<"bad">>

\* The gateway's message_start carries no counts.
AnthropicFrames(event) ==
    CASE event = "started" -> <<"other", "other">>
      [] event = "delta"   -> <<"text">>
      [] event = "done"    -> <<"other", "usage", "other">>
      [] event = "error"   -> <<"bad">>

\* sse_lines of the handler.
SseLines(client, event) ==
    CASE client = "chat"      -> ChatFrames(event)
      [] client = "responses" -> ResponsesFrames(event)
      [] client = "anthropic" -> AnthropicFrames(event)
=============================================================================
