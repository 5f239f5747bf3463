------------------------------ MODULE Exchange ------------------------------
(***************************************************************************)
(* One upstream call from end to end, for a client of any protocol and a   *)
(* provider of any protocol: the client's body is parsed, the connector    *)
(* builds and posts its own (complete and stream of connector/*.rs), and   *)
(* either the whole answer comes back or a stream is opened, which the     *)
(* egress task reads.  It is the way of speed, cheapest and failover,      *)
(* which hand the request on as it was parsed.                             *)
(***************************************************************************)
EXTENDS Egress, Translation

CONSTANTS
    Contents,      \* contents of messages: [form, parts]
    Limits,        \* max_tokens that clients write, with Unset
    Defaults,      \* default_max_tokens of models, with Unset
    MaxMessages    \* bound: messages of a body

\* A string is text alone; as_u64 takes no negative limit, and the admin API
\* stores a default however large.
ASSUME ExchangeAssumption ==
    /\ \A content \in Contents :
          /\ content.form \in {"string", "blocks", "none"}
          /\ content.parts \in Seq(Words \cup {Image})
          /\ content.form = "string" => content.parts \in Seq(Words)
          /\ content.form = "none" => content.parts = << >>
    /\ Limits \subseteq Nat \cup {Unset} /\ Defaults \subseteq Nat \cup {Unset}
    /\ Unset \notin Nat
    /\ MaxMessages \in Nat

VARIABLES
    route,    \* who talks to whom, and whether complete or stream is called
    body,     \* the client's body, until it is posted
    model,    \* what the resolver reads of the model: its key and its limit
    stage,    \* "resolve", "post", "body", "stream", "returned"
    posted,   \* the body the provider has got
    answer,   \* history: the whole answer of the provider
    result    \* what complete or stream returned

callVars == <<route, body, model, stage, posted, answer, result>>
vars == <<egressVars, callVars>>

NoBody   == [system |-> [form |-> "none", parts |-> << >>], messages |-> << >>,
             limit |-> Unset]
NoModel  == [secret |-> "none", default |-> Unset]
NoPost   == [system |-> << >>, turns |-> << >>, limit |-> Unset]
NoAnswer == [parts |-> << >>, counts |-> Unset]
NoResult == [outcome |-> "none"]
Failed(kind) == [outcome |-> kind]

Messages == [role : Roles, content : Contents]

Conversations == UNION {[1 .. n -> Messages] : n \in 0 .. MaxMessages}

\* Only an Anthropic body has a system field of its own.
Bodies(client) ==
    [system   : IF client = "anthropic" THEN Contents ELSE {NoBody.system},
     messages : Conversations,
     limit    : Limits]

Routes == [client : Protocols, connector : Protocols, buffered : BOOLEAN]

\* A key that is stored encrypted, one that cannot be decrypted, one from the
\* environment, or none.
Secrets == {"stored", "unreadable", "environment", "none"}

\* Complete answers: for chat a string or null, else blocks, of which only
\* those of type text count; the counts may be missing.
Answers(kind) ==
    [parts  : {content.parts : content \in
                 {c \in Contents : kind = "chat" => c.form # "blocks"}},
     counts : {Unset} \cup {Counted(kind, deltas) : deltas \in 0 .. MaxText}]

Init ==
    /\ EgressInit
    /\ route \in Routes
    /\ body \in Bodies(route.client)
    /\ model \in [secret : Secrets, default : Defaults]
    /\ stage = "resolve"
    /\ posted = NoPost /\ answer = NoAnswer /\ result = NoResult

Return(value) ==
    /\ stage' = "returned"
    /\ result' = value
    /\ UNCHANGED route

\* The request and the model's row have served their purpose.
Forget == body' = NoBody /\ model' = NoModel /\ posted' = NoPost

-----------------------------------------------------------------------------
(* Before the request is sent *)

\* resolve_key: a stored key that cannot be decrypted is an error.
KeyUnreadable ==
    /\ stage = "resolve" /\ model.secret = "unreadable"
    /\ Return(Failed("hard_fail"))
    /\ Forget
    /\ UNCHANGED <<answer, egressVars>>

\* build_headers: no key was stored or found in the environment.
KeyMissing ==
    /\ stage = "resolve" /\ model.secret = "none"
    /\ Return(Failed("hard_fail"))
    /\ Forget
    /\ UNCHANGED <<answer, egressVars>>

\* resolve cuts the operator's default to 32 bits, as the parser the limit.
DefaultMaxTokens == AsU32(model.default)

Post ==
    /\ stage = "resolve" /\ model.secret \in {"stored", "environment"}
    /\ posted' = BuildRequest(route.connector, ParseRequest(route.client, body),
                              DefaultMaxTokens)
    /\ stage' = "post"
    /\ UNCHANGED <<route, body, model, answer, result, egressVars>>

-----------------------------------------------------------------------------
(* The provider's answer *)

\* The request cannot be sent, or the status is not 2xx.
PostFails ==
    /\ stage = "post"
    /\ Return(Failed("http"))
    /\ Forget
    /\ UNCHANGED <<answer, egressVars>>

\* complete: the status was 2xx, and the whole body is awaited.
CompleteAccepted ==
    /\ stage = "post" /\ route.buffered
    /\ stage' = "body"
    /\ Forget
    /\ UNCHANGED <<route, answer, result, egressVars>>

\* stream: the status was 2xx, and the caller gets the receiver.
StreamAccepted ==
    /\ stage = "post" /\ ~route.buffered
    /\ Open(route.connector)
    /\ stage' = "stream"
    /\ Forget
    /\ UNCHANGED <<route, answer, result>>

\* The body breaks off, is empty or is no JSON.
BodyFails ==
    /\ stage = "body"
    /\ Return(Failed("http"))
    /\ UNCHANGED <<body, model, posted, answer, egressVars>>

BodyArrives(given) ==
    /\ stage = "body"
    /\ answer' = given
    /\ Return([outcome |-> "answer", response |-> ParseAnswer(route.connector, given)])
    /\ UNCHANGED <<body, model, posted, egressVars>>

-----------------------------------------------------------------------------
CallNext ==
    \/ KeyUnreadable \/ KeyMissing \/ Post
    \/ PostFails \/ CompleteAccepted \/ StreamAccepted
    \/ BodyFails
    \/ \E given \in Answers(route.connector) : BodyArrives(given)

Next ==
    \/ CallNext
    \/ stage = "stream" /\ EgressNext /\ UNCHANGED callVars
    \/ stage = "returned" /\ UNCHANGED vars

Spec == Init /\ [][Next]_vars

FairSpec == Spec /\ EgressFairness
=============================================================================
