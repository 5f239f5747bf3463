---------------------------- MODULE Translation ----------------------------
(***************************************************************************)
(* Requests and complete answers between the three protocols: what         *)
(* ingress/*.rs reads from a client's body, what a connector writes for    *)
(* its provider, what it reads from the answer and what goes back.         *)
(*                                                                         *)
(* A text is a sequence of words.  Tool definitions, calls and results are *)
(* left out: no parser and no strategy of the program makes any.           *)
(***************************************************************************)
EXTENDS SseTranslation, SequencesExt

CONSTANTS
    Words,      \* what texts are made of
    Image,      \* a block of content without text
    NewLine,    \* the separator of joined system texts
    Unset,      \* a field that is absent
    Roles,      \* roles that clients write
    U32,        \* 2^32 in the code
    Fallback    \* Anthropic's max_tokens if nobody sets it, 1024 in the code

ASSUME TranslationAssumption ==
    /\ Image \notin Words /\ NewLine \notin Words
    /\ U32 \in Nat \ {0} /\ Fallback \in Nat

\* The elements of s that are in S, in their order.
Only(s, S) ==
    LET keep(kept, x) == IF x \in S THEN Append(kept, x) ELSE kept
    IN  FoldLeft(keep, << >>, s)

-----------------------------------------------------------------------------
(* Ingress: parse_request *)

\* content_to_text: a string, or the text blocks of an array; null is empty.
ContentToText(content) == Only(content.parts, Words)

ItemRoles == {"system", "user", "assistant", "tool"}

Items == [role : ItemRoles, text : Seq(Words)]

SystemItems == [role : {"system"}, text : Seq(Words)]

Message(role, text) == [role |-> role, text |-> text]

\* as_u64, then `as u32`.
AsU32(limit) == IF limit = Unset THEN Unset ELSE limit % U32

ParseOpenAi(messages, limit) ==
    [items |-> [i \in DOMAIN messages |->
                  Message(IF messages[i].role \in {"system", "assistant", "tool"}
                            THEN messages[i].role ELSE "user",
                          ContentToText(messages[i].content))],
     limit |-> AsU32(limit)]

ParseChat(body) == ParseOpenAi(body.messages, body.limit)

\* A bare string as input is one message of role user.
ParseResponses(body) == ParseOpenAi(body.messages, body.limit)

\* Only a string counts as system.
SystemItem(body) ==
    IF body.system.form = "string" /\ body.system.parts # << >>
      THEN <<Message("system", body.system.parts)>>
      ELSE << >>

ParseAnthropic(body) ==
    [items |-> SystemItem(body) \o
                 [i \in DOMAIN body.messages |->
                    Message(IF body.messages[i].role = "assistant"
                              THEN "assistant" ELSE "user",
                            ContentToText(body.messages[i].content))],
     limit |-> AsU32(body.limit)]

ParseRequest(client, body) ==
    CASE client = "chat"      -> ParseChat(body)
      [] client = "responses" -> ParseResponses(body)
      [] client = "anthropic" -> ParseAnthropic(body)

-----------------------------------------------------------------------------
(* Egress: build_*_request *)

LimitOr(req, default) == IF req.limit = Unset THEN default ELSE req.limit

BuildChat(req, default) ==
    [system |-> << >>, turns |-> req.items, limit |-> LimitOr(req, default)]

BuildResponses(req, default) ==
    [system |-> << >>,
     turns  |-> [i \in DOMAIN req.items |->
                   Message(IF req.items[i].role = "tool" THEN "user" ELSE req.items[i].role,
                           req.items[i].text)],
     limit  |-> LimitOr(req, default)]

\* Mutant of JoinSystem: a later system message takes the place of the first.
JoinSystemLast(joined, item) == item.text

\* The separator goes in only where there is a text before it.
JoinSystem(joined, item) ==
    IF joined = << >> THEN item.text ELSE joined \o <<NewLine>> \o item.text

BuildAnthropic(req, default) ==
    LET turns == Only(req.items, Items \ SystemItems) IN
    [system |-> FoldLeft(JoinSystem, << >>, Only(req.items, SystemItems)),
     turns  |-> [i \in DOMAIN turns |->
                   Message(IF turns[i].role = "assistant" THEN "assistant" ELSE "user",
                           turns[i].text)],
     limit  |-> IF LimitOr(req, default) = Unset THEN Fallback ELSE LimitOr(req, default)]

BuildRequest(kind, req, default) ==
    CASE kind = "chat"      -> BuildChat(req, default)
      [] kind = "responses" -> BuildResponses(req, default)
      [] kind = "anthropic" -> BuildAnthropic(req, default)

-----------------------------------------------------------------------------
(* Answers: parse_*_response, format_response *)

NoCounts == [input |-> 0, output |-> 0, read |-> 0, write |-> 0]

\* The counts of an answer, or zeros if it has none.
SaidBy(answer) == IF answer.counts = Unset THEN NoCounts ELSE answer.counts

Response(text, call) == [text |-> text, call |-> call]

\* A null content, as with a tool call, is an empty text.
ParseChatAnswer(answer) ==
    LET said == SaidBy(answer) IN
    Response(ContentToText(answer), OpenAiCall(said.input, said.output, said.read))

ParseResponsesAnswer(answer) ==
    LET said == SaidBy(answer) IN
    Response(ContentToText(answer), OpenAiCall(said.input, said.output, said.read))

\* Mutant of ParseAnthropicAnswer: cached tokens are subtracted once more.
ParseAnthropicAnswerSubtracts(answer) ==
    LET said == SaidBy(answer) IN
    Response(ContentToText(answer), OpenAiCall(said.input, said.output, said.read))

ParseAnthropicAnswer(answer) ==
    LET said == SaidBy(answer) IN
    Response(ContentToText(answer),
             AnthropicCall(said.input, said.output, said.read, said.write))

ParseAnswer(kind, answer) ==
    CASE kind = "chat"      -> ParseChatAnswer(answer)
      [] kind = "responses" -> ParseResponsesAnswer(answer)
      [] kind = "anthropic" -> ParseAnthropicAnswer(answer)

\* All three write the first message's text and the counts of the usage.
FormatResponse(response) ==
    [text |-> response.text, input |-> response.call.input, output |-> response.call.output]

\* stream_from_full: a complete answer for a client that wanted a stream is
\* one delta, whatever its length.
FullEvents == <<"started", "delta", "done">>
=============================================================================
