# LocalFusion in TLA+

LocalFusion is an inference gateway: a client asks for a *virtual model* in one
of three protocols, a *strategy* answers it by calling one or several upstream
models, and every call is counted and billed.  This directory holds
specifications of that program, written from its Rust source, the TLC runs that
check them on small instances, and theorems that TLAPS proves for all of them.

Paths below are relative to the repository; `design` stands for
`docs/superpowers/specs/2026-06-26-localfusion-design.md`.

## 1. Inventory

| part | source | state | operations | talks to |
|---|---|---|---|---|
| ingress handler | `src/ingress/handler.rs` | one task per request, and after it the body generator of a stream | `handle`, `stream_real`, `stream_from_full` | keys, router, accounting; dropped by axum/hyper when the client leaves |
| router, resolver | `src/router.rs` | none of its own | `dispatch`, `resolve` | reads virtual model, members and models in separate queries |
| strategies | `src/strategy/*.rs` | locals of `execute` | failover, speed, cheapest; synthesize, best-of-n; multimodal | connectors, recorder |
| recorder | `src/unified.rs` | `CallRecorder.calls` | `record`, `drain` | strategies write, accounting drains |
| accounting | `src/pipeline.rs`, `src/db/usage.rs` | `usage_hourly` (real, virtual, total), `request_log` | `write_stats`, `finalize_full` | prices |
| egress task | `src/connector/sse.rs` | byte buffer, translator, channel of 64 events | `run_egress` | provider on one side, `stream_real` on the other |
| translation | `src/ingress/{openai_chat,openai_responses,anthropic}.rs` | none | `parse_request`, `format_response`, `sse_events` | ingress handler |
| connectors | `src/connector/{chat,anthropic,responses}.rs` | translators' text and counts | `complete`, `stream`, `push`, `finish`, `fail` | egress task |
| admin API | `src/admin/api.rs` | `models`, `virtual_models`, `prices`, `keys` | CRUD handlers of several statements, model probe, playground, stats | database, connectors |
| keys and ACL | `src/db/keys.rs`, `src/auth.rs` | `keys`, `key_acl` | `authorize_ingress`, `key_authorize`, `key_set_acl` | |
| latency probe | `src/probe.rs`, `src/db/latency.rs` | `latency_samples` | background loop | strategy speed reads the samples |
| price refresh | `src/price_refresh.rs`, `src/prices_litellm.rs`, `src/db/prices.rs` | `price_defaults` | daily fetch, replace, match | admin API |
| bootstrap, main | `src/bootstrap.rs`, `src/main.rs` | settings | first start, serve, shutdown | all |

What makes it correct, and hard to test:

* **Requests.** Every upstream call is billed once, with the result it had, and
  nothing else is; the three scopes of a request are sums of the same calls in
  the same hour; an error is an error for the client and for the statistics
  alike; a request ends.  The calls of one request interleave with each other
  (panel), with the end of a stream that outlives its handler, with edits of the
  virtual model and of prices, with the turn of the hour, with a failing
  statement and with the client's disconnect, which drops the task at whatever
  await it stands.
* **Streams.** Exactly one terminal event ends a stream, whichever of the six
  ways the reading task leaves by; a slow client stops it, a client that has
  left ends it; what was delivered before a break is billed.
* **Protocols.** A request may come in any of three protocols and go out in any
  other: instructions stand in other places, roles have other names, and the
  input tokens of one include what the other counts apart.
* **Administration.** Handlers check, then write, in statements of their own;
  the model probe writes back a row it read before a network call; prices have
  no foreign key.
* **Keys.** A caller's key and its list are read in two queries, between which
  an operator may edit both, and the id that joins them comes back when a key is
  deleted.
* **Process life.** First start writes a hash and then prints the token; a
  migration may be cut off between two columns; shutdown does not wait for
  background tasks.

`PROJECT.json` lists each of these hazards at its line with the properties that
would catch it, and the components with what is and is not modelled.

## 2. Modules

```
StreamOps          the bounded event channel
  RequestCore      state of a request, call_member, CallRecorder
    SingleModel    failover, speed, cheapest
    Panel          synthesize, best-of-n
    Multimodal     the tool loop
    Accounting     forwarding of streams, write_stats, the answer
      RequestPipeline     handle + dispatch + the four above + environment
        PipelineProperties
          MCPipeline      small instances
          PipelineProofs  types
            LedgerProofs  what is billed and counted
              OrderProofs in which order, and what the client was told
  SseTranslation   translators and the gateway's frames, three protocols
    Egress         run_egress in detail
    Translation    requests and complete answers, three protocols
      Exchange     one upstream call from end to end, with Egress
        ExchangeProperties   refines StreamContract
          MCExchange         small instances
          TranslationProofs  the operators on requests, answers and frames
            ExchangeProofs   a call and its stream
  StreamContract   abstract: what a stream may do
Registry           the tables of models, prices, virtual models
  AdminModels      the admin handlers on them, statement by statement
    AdminProperties
      MCAdmin        small instances
    KeyAcl           keys, allow lists and the check of a key, beside AdminModels
      KeyProperties
        MCKeys       small instances
        AdminProofs  types, members, what one operator may rely on, and the keys
Ranking            which member speed and cheapest call
  MCRanking, RankingProofs
ProbeLoop          the background loop that samples latencies
  ProbeProperties
PriceRefresh       the task that replaces the default prices
Bootstrap          what a process does to the data base before it serves
  Process          ProbeLoop, PriceRefresh and Bootstrap in one process's life
    ProcessProperties
      MCProcess, ProcessProofs
```

`SingleModel` leaves open which member speed and cheapest call; `Ranking` is the
loop that chooses it.  `RequestPipeline` lets the environment edit virtual
models and prices in single steps; `AdminModels` is how these edits come about,
and `KeyAcl` how its action `Reject` does.  They share no variable and are not
composed: a request reads each table in a query of its own, so all it can see of
a handler is single statements.  What does meet is composed: the keys' lists
with the handlers that delete the virtual models they name (`KeyAcl`), the
translators with the task that reads (`Exchange`), the two loops with the
process that starts and drops them (`Process`).

### The request pipeline

One request is one task; a step is what the task does between two awaits at
which another task, or a disconnect, can be noticed.  `pc[r]` names the await
the task of `r` stands at:

| `pc` | code |
|---|---|
| `received` | `handle` before authorisation and parsing (`handler.rs:67-83`) |
| `name`, `vmodel`, `members`, `dispatch` | the reads of `handler.rs:87` and `router.rs:124`, `133`, `136` |
| `connect`, `call` | awaiting `stream` or `complete` of one member |
| `panel`, `judge` | `join_all`, the judge's call |
| `main`, `tools`, `tool` | the turn of the main model, between tool calls, a tool backend's call |
| `forward` | `recv` in the body generator of `stream_real` |
| `full`, `failed` | the strategy has returned `Full` or `Err` |
| `real`, `total`, `log` | before a real (or the virtual), the total, the log statement of `write_stats` |
| `reply`, `done`, `gone` | answered next, answered, dropped |

Text, prompts and token counts are abstracted: a call is known by its position
in `attempts[r]`, a history of the calls that were answered.  `usage_hourly` is
a table of sums that statements add to in place, and addition commutes; it is
kept as the summands each request added (`real[r]`, `virtual[r]`, `total[r]`).
A usage is named as in the code: a successful call by the provider's name of
the model, a failed `complete` by the id of the `models` table.

The environment is free: a provider answers a call in any way and at any time,
a stream sends deltas and a terminal event when the channel has room, the
client disconnects, an operator changes the virtual model (in one transaction,
as `vmodel_upsert` does) or a price, the clock turns to the next hour.  Any
statement of `write_stats` and any query of `dispatch` may fail.

`multimodal` is modelled over whatever a `Connector` may return.  The parsers of
the three connectors translate no tool call today, so that only the
repository's tests enter its loop.

### An upstream call

`Exchange` is one call, `complete` or `stream`, for a client of any protocol and
a provider of any protocol: the body is parsed (`parse_request`), the key
resolved, the connector's body built and posted, and a whole answer read or a
stream opened.  `stage` names where it stands.  A text is a sequence of words, so
that what joins and splits texts is modelled and what spells them is not; a count
is a number, and `Counted` is how a provider adds up its own: OpenAI's input
includes cached tokens, Anthropic's does not.

`Egress` is `run_egress` with its buffer guard, translator, early returns and
bounded channel; bytes are counted in units of one frame, and a frame is known
by what it holds (Anthropic's opening counts, text, the counts at the end,
[DONE], something else, something that cannot be translated).  `pc = "off"` until
a status of 2xx opens the stream.  `SseTranslation` has the translators, `push`
and `finish` of each connector, and which frames the gateway itself writes for an
event, so that a property can read them back with the same translators.

`StreamContract` is what the pipeline may rely on: `Started`, deltas, one
terminal event, closed.  `ImplementsContract` in `ExchangeProperties` states the
refinement (`ch <- channel`), and the pipeline's `StreamSends` and `Disconnect`
are written with the contract's operators.

### Administration

`Registry` holds the three tables an operator edits and one action per statement
or transaction on them.  A row of `models` keeps how the model is called
(`address`: connector, base URL, provider's name), its key and its
`default_max_tokens`; a row of `prices` keeps only who set it, since the
properties ask for no more; a virtual model keeps its members and the models
that `params` names (`routes`: `judge`, `web_search` and the three others).
Foreign keys are guards: a statement that violates one is not enabled, and its
handler can only go on with `Abandon`, which stands for every error of a
statement and for a client that leaves.

In `AdminModels` a handler `e` stands before the statement `at[e]`:

| `at` | code |
|---|---|
| `keep`, `write`, `priced`, `look`, `match`, `default` | `upsert_from_body`: keep the key, write the model, write the body's price, or look for a price, match a default and write it |
| `members`, `routes`, `delete` | `delete_model` with the two queries of `model_references` |
| `exists`, `priced` | `update_prices` |
| `ask`, `save` | `upsert_vmodel`: one query per model named, then the transaction |

A connectivity test `t` holds in `pending[t]` the rows it read, until each has
been probed.  What the network answers is any address and any limit.

### Keys

`KeyAcl` adds the tables `ingress_keys` and `ingress_key_acl` to the steps of
`AdminModels`, with one action per handler (each is one statement or one
transaction) and the cascades of their foreign keys (`Cascade` is part of every
step of `AdminModels`).  A check is `Present`, the first query (`LookUpKey` or
`RefuseKey`), the second (`LookUpList`) and `Leave`.  `during[c]` is history: what
the rule of `key_authorize`, read on one state of the tables, would have answered
at each moment of the check, how often the tables changed, and whether a key was
opened to all virtual models.

### Ranking and samples

`Ranking` keeps throughputs and estimated costs as numbers of which only the
order matters; `Top` is `f64::MAX`.  While it goes through the members, one query
each, any sample or price may change.  `ProbeLoop` is `spawn_probe_loop` with
`probe_once`: of the samples it keeps which models have any and which have one
within the window.

### Process life

`Bootstrap` has the statements between opening the data base and serving, in
their order: `ALTER TABLE` for each column, the salt, the token's hash, the
token's print.  `PriceRefresh` is `spawn_price_refresh_loop`; a document of prices
is known by its age.  `Process` is `main`: it runs the statements, spawns
`ProbeLoop` and the refresher, seeds the default prices between the two, serves,
and ends by a signal, an error or a kill at any step (`End`), which loses all
that is in memory and drops the loops at whatever they await.  Then it may be
started again on what is in the data base.

## 3. Runs

| run | checks | instance | shows |
|---|---|---|---|
| `safety` | 8 invariants, 1 action property | 1 request, 7 configurations of 6 strategies, 2 models, 2 hours, 2 prices, 1 edit | billing, counting and order of calls |
| `live` | `EveryRequestEnds` | the same, 1 hour, 1 price | a request ends |
| `connector` | 6 invariants, refinement, 1 liveness property | all pairs of 3 protocols, bodies of up to 2 messages, up to 3 text frames, chunks of 2, channel of 2 | what was said arrives, but for a system in blocks, what was answered returns and is billed, the stream contract |
| `unrecorded`, `torn`, `timeout` | one documented claim each | 1 request, single-model strategies | the code does otherwise (section 6) |
| `operator` | 2 invariants, 1 action property | 1 handler and 1 test at a time, 2 models, 1 virtual model | tables stay consistent for one operator |
| `keys` | 4 invariants, 1 action property | 2 handlers at a time, 1 model, 1 virtual model, 1 key id for 2 keys, 1 caller | members and lists refer to what exists in any interleaving; a check answers for a cause |
| `orphan` | one documented claim | 2 handlers at a time, 1 model | the code does otherwise (section 6) |
| `ranking` | `ChosenIsBest` | 3 members, offers 0 to 2 | the best member is called |
| `process` | 3 invariants, 1 action property, 3 liveness properties | 2 models, one of which fails or stays silent, 2 documents, 2 columns, a process and the one after it | what outlives a process is whole; both loops do their work and end, but for one held up by a silent provider |
| `sampled` | one documented claim | 3 models | the code does otherwise (section 6) |

**Bounds.**  One request is enough for the pipeline: requests share only what
the environment changes anyway (`vmodel`, `prices`, `hour`), and
`PipelineProofs!OnlyOne` proves that a step of one request changes no variable
of another.  Two models suffice for a failover with one failure and one
success, for a panel whose two answers come in either order, and for a judge
that is also a member.  m1 has a provider's name of its own and m2 has not, so
that both namings of `UsageOf` occur.  `MaxEdits = 1` lets an edit fall between
any two steps; `ChannelCap = 2` fills (64 in the code).  `MaxTools = 1` and two
iterations reach both exits of the loop.

In `connector`, two messages are two system messages, one of them after a turn,
or turns of two roles; a content is a string, blocks with an image between two
texts, or null.  `U32 = 4` lets a client's limit of 5 and an operator's of 7 be cut, `Fallback = 1` differs from
every limit a client or an operator sets.  `Fresh`, `Cached` and `Written` are
three different numbers, so that no wrong sum of them is the right one, and a
delta's count by the provider differs from its estimate.  `MaxText = 3` with
chunks of two makes the buffer split across reads and the channel block, and a
chunk can exceed `MaxFrameBuffer = 4` only together with the rest before it.

For administration, what matters is whether handlers overlap: with one at a
time the checks protect the tables (`operator`), with two only the foreign keys
do (`keys`, `orphan`).  Two models let a save name one that stays and one that
goes; one member and one route suffice, since each is asked for by the same
query.  In `keys` one id for two plaintexts is the id that comes back, and
changes are counted up to two, since two are what the first exception of
`AnsweredForCause` needs; more ids add keys that a check does not meet, and
`AdminProofs` has any number.  Three members with three distinct offers
give `ranking` every order and every tie; a member without a sample or price
may stand anywhere.  In `process` the model that fails, or whose provider
stays silent, can come before or after the other; one end of a process at each of its steps and the start after it
show what is left, and what a third would find is what a second left
(`ProcessProofs` has any number).

**Fairness.**  `GatewayFairness`: tokio polls a task that is ready.
`UpstreamFairness`: every call is answered, and a stream that has infinitely
many chances to end ends.  That is an assumption on providers that the code does
not enforce by a timeout; run `timeout` shows what happens without it.  For the
egress task: the task runs, a connected client reads on, the provider does not
keep the body open forever.  For the two loops (`ProcessFairness`): they are
polled, their tickers fire again and again, the source of prices answers one day
or another, a statement tried again and again succeeds in the end, and `select!`
is fair between its branches, which tokio brings about by polling them in random
order.  That a probe is answered is *not* assumed of the providers in `Silent`:
the resolver's client has no timeout (`src/router.rs:20-25`), so that one of them
may hold `probe_once` at `src/probe.rs:52` for as long as the process runs
(`Waiting`), and with it the probes of all other models and the look at the
signal.  `StaysFresh` and `LoopsEnd` name this as their one exception; the
refreshing task has none, since its client gives up after 30 s.  Nothing forces
the runtime to drop a loop at shutdown, so that `LoopsEnd` rests on the signal;
nothing is assumed of the start of a process, which may be down for good.

## 4. Proofs

`PipelineProofs`, `LedgerProofs` and `OrderProofs` prove, for any number of
requests, any sets of models and configurations and any bounds, under
`CoreAssumption` (names and configurations are well formed) and
`ChannelCapAssumption`:

* `TypeCorrect == Spec => []TypeOK`.  The types are not inductive alone: that a
  call is made to a *model* needs the member's index to be in range, that a
  judge is called needs one to be configured, and that `tools` stays natural
  needs it to be positive where it is decremented.  `Shape` states these facts
  per place the task can stand at, and `TypeOK /\ Shapes` is inductive: one
  lemma per group of actions for the types, one for the shape of the request
  that moves, and `OnlyOne` for all the others.
* `OneBasisForAll == Spec => []SameBasis`.  What has been written says nothing
  of what the next statement will write, so `Ledger` adds what the locals of
  `write_stats` hold before each statement: `agg` is the real rows, their hour
  is `stamp`, and the rows of the statements to come are still empty.
* `BilledOnceForAll == Spec => []BilledOnce` and
  `EveryCallBilledForAll == Spec => []EveryCallBilled`.  `Billing` follows every
  call from where it is answered to the real rows: the recorder, the event
  queued in the channel, the tail of the stream, the entries `write_stats` has
  not written yet.  The positions along this path rise and lie within the calls
  made (so none is billed twice), and together the places filled so far cover
  all calls but the unrecorded ones (so none is lost).  The lemmas `AppendBoth`,
  `LastJoins` and `MoveHead` are the three ways an entry moves.
* `OrderProofs` has the rest of the safety properties.
  `ErrorsAsSeenForAll` and `CountedBeforeAnsweredForAll` follow from `Told`: up to
  the tail of the stream no error is remembered, afterwards `errFlag` says what
  the client has read, and it is the mark of every row that is written.  That
  `Forward` cannot forget an error rests on `Billing`, by which an event still in
  the queue means that the last one has not been received.
* `EndedAccountedForAll` puts the ledger's invariants together: a request that has
  ended, a stream included, has one row in each summary table and one in the
  log, all of the same real rows, and these have every call it made but the
  unrecorded ones, unless a statement failed.  This is what the code keeps of
  the sum promised in `design:700-701`; run `torn` shows the exception.
* `FailoverInOrderForAll`, `JudgeLastForAll` and `CommittedToStreamForAll` follow
  from `InOrder`, whose three parts say which strategy stands at which place
  (`Kinds`), that failover's index is one past the calls made and that all of
  these failed (`Failover`), and that in a panel the calls in flight and the
  calls answered add up to the members (`Judged`), so that an empty set of
  waiting members means that all have answered.

* `StreamsByContract` joins the two halves of the model: every step moves the
  stream of a request as `StreamContract` does, so that the pipeline, which has no
  reading task, grants its streams no more than `EgressImplementsContract` proves
  of the task.  It needs that a queue without a receiver is empty
  (`AllListening`) and that a stream is opened only where none was (`Kinds`).

`ExchangeProofs` proves, for any protocols, bodies, limits, counts, chunks and
capacities, under `EgressAssumption`, `CountsAssumption`, `TranslationAssumption`,
`ExchangeAssumption` and `ChannelCapAssumption`:

* `EgressTypeCorrect`, `BufferStaysBounded` and `BillsWhatItDelivers`.  `Tally`
  is the invariant of the last: the translator's text is the deltas sent and the
  one still to be sent, its counts are those of the frames with counts that it
  has been through, and the frames still in the buffer keep the order in which a
  provider counts, so that the counts it takes in next are of all the text.
* `EgressImplementsContract == Spec => ImplementsContract`: every step of the
  call is a step of the stream contract or leaves its variables alone.
  `StreamsWellFormed` is the contract's own invariant, proved there of its few
  actions and carried over by the refinement.
* `ConversationCorrect == Spec => []ConversationArrives` and
  `ExchangeTypeCorrect == Spec => []ExchangeTypeOK`.  `Call` is the invariant: in each
  stage of a call it says what is known of the client's body and of the model,
  that the request posted is the one built from them, that the stream's task runs
  in stage `stream` only, and that the answer is a parsed one.  What is posted is
  then a matter of the operators alone (`PostedWell`): for a body of any length,
  the turns say the client's words in order and by whom, the instructions are
  joined and none is lost but an Anthropic system in blocks, which is lost whole
  (`SystemInBlocks`, section 6), and a limit below 2^32 is the client's or else the
  model's default (`CutLimit`).
* `AnswerCorrect == Spec => []AnswerReturned`: a complete answer keeps its text and
  counts, and the frames made of it for a client that wanted a stream bill the
  same output.
* `GatewaysCompose == Spec => []ReadBackSame`: the frames written of a stream, read
  by the translator of the same protocol, give as many deltas, the same counts
  and the same end.  Three facts meet here: a terminal event is the last (the
  contract), a reader hears the same of frames that differ only in what it skips
  (`HeardWritten`, `WrittenSame`), and `BillsWhatItDelivers`, since an output of 0 is
  written as no count at all and the reader then estimates.

`TranslationProofs` has the lemmas these rest on.  Lists of messages, deltas and
frames may have any length, so that each needs an induction over data.  The
library's induction theorems take a predicate, which the provers cannot
instantiate; `Induction` and `SeqInduction` state them of a *set* and are proved
from the well-foundedness of `<`.  With them `FoldEquations` shows that the folds
of the community modules satisfy the equations of a recursion on the last
element, and `Only`, `Joined`, `Texts`, `FlattenSeq` and the counts of frames follow.
`Only(s, S)`, the members of `s` in `S`, is written as a fold because `SelectSeq` is
defined by a local recursion that the provers do not see.

`AdminProofs` proves, for any number of handlers, tests and rows, under
`RegistryAssumption` (no row is `NoRow`) and `AdminAssumption`:

* `AdminTypeCorrect` and `MembersExistForAll`, for any interleaving.  The second
  is inductive with the types: a save that passes the foreign key has members
  that exist, and a deletion that passes it takes no member away.
* `NoOrphanPriceForOne`, `RoutesExistForOne` and `HandPriceKeptForOne`, assuming
  `OneEditor` (handlers do not overlap, tests may).  Run `orphan` shows that the
  first fails without it, and so do the others: `MCAdmin_operator.cfg` with a
  second handler and each property alone ends in a counterexample.  The tables alone are not inductive: `Settled` adds
  what a handler has established before each statement (a model whose price is
  about to be written exists, no price is there before a default is written, no
  virtual model refers to a model about to be deleted, the models a save has
  found exist), and `Linked` what the tables then satisfy.  With one handler
  nothing but a test can come between, and a test removes no row.

Its second part adds the keys, under `KeyAssumption` as well, for any number of
callers:

* `KeyTypeCorrect`, `ListsReferAlways` and `CallersKeptAlways`, from the types
  and the cascades.
* `AnsweredForCauseAlways == KeySpec => []AnsweredForCause`.  `Change` lists what
  one step can do to the two tables, and `Sound` what a check rests on while it
  waits for its second query: as long as the rule always said no and nothing
  moved, the key it found is the caller's own; as long as at most one step moved
  the tables, the list under that id does not have the name; as long as the rule
  always said yes and no key was opened, the key it found is still there,
  enabled and not open to all.  `ChangeLists` and `ChangeRow` are the two facts
  of a single step that keep it, and `RowsInv` (no two rows have one secret) the
  reason the key found is the one the rule speaks of.
* `KeysRefineAdmin == KeySpec => Spec`, and with it `MembersExistBesideKeys`.

`ProcessProofs` proves, for any models, columns, documents and number of ends,
under the modules' assumptions, `ProcessTypeCorrect`, `TokenAlwaysKnown`,
`AlwaysServesWhole` and `SnapshotNeverBack` from one invariant with four parts:
where the token is (made, stored, printed), which salt the key in memory and the
ciphers are of, which columns a migration has been through, and that a document
on its way is not older than the snapshot it will replace.  `NoModelSampledFirst`
is the finding of run `sampled` for any number of models: no step, in any number
of starts, gives a model its first sample.

`RankingProofs` proves `RankingTypeCorrect` and `ChosenIsBestForAll` for every
list of members, from the loop's invariant `Leading`: `best` is the best of those
seen so far, and `bestScore` its score.

Every invariant and every action property that a passing run checks is thus a
theorem.  Only model-checked are the liveness properties, with the fairness they
assume (`EveryRequestEnds`, `StreamEnds`, and of the process `StaysFresh`,
`PricesFollow` and `LoopsEnd`): fairness rests on `ENABLED`, which the provers do not
reason about.  The counterexamples of the five
violation runs are TLC's.

## 5. Plan

Done: the request pipeline, an upstream call between any two protocols, the
administration of models, prices, virtual models and keys, ranking, the two
loops and the life of the process, with the proofs of section 4.  What would come
next, in this order:

1. The matching of a model's name to a default price, and the endpoint
   candidates and `parse_max_tokens_limit` of the connectivity test, as functions
   against reference definitions.
2. `FrameSplitter` byte by byte, refining the frames of `Egress`.
3. The playground, which runs a strategy outside of the pipeline and counts
   nothing.

## 6. Where code and documents disagree

* `unrecorded`: speed and cheapest pass on the error of a stream that cannot be
  opened and record nothing; `design:536-538` and `design:552` say every call is
  recorded once, failed openings included.  failover does record them.
* `torn`: the statements of `write_stats` are not a transaction; `design:700-701`
  says the real rows always add up to virtual and total.
* `timeout`: `timeout_secs` (`design:618`, `src/strategy/mod.rs:76-81`) is read by
  nothing; a silent member holds failover forever.
* `orphan`: between the check of `update_prices` and its write the model may be
  deleted; `src/admin/api.rs:232` and `src/db/models.rs:64-65` say no price is
  left without a model.
* `sampled`: the probe loop's query draws on the samples alone, and no request
  writes one, so that a new database never gets any; `src/probe.rs:34` and
  `design:629-631` say models without samples are probed.

Further differences have no run of their own:

* `delete_model` and `upsert_vmodel` check and write in separate statements, so
  that two handlers together leave a judge that is gone (`RoutesExist`);
  `design:921-922` says a model is deleted only when nothing refers to it.
* A price set by hand between the look and the write of `upsert_from_body` is
  lost (`HandPriceKept`); `src/admin/api.rs:152-153` says it never is.
* `probe_one` writes back the whole row it read before its network calls
  (`ProbeCorrects`): an old key, or a model that was deleted; the comment at
  `src/admin/api.rs:448` names three fields it corrects.
* `src/ingress/anthropic.rs:2` says `system` may be a string or an array of
  blocks; only a string is read (line 27), so that instructions in blocks are
  dropped.  `ConversationArrives` holds with this case named as its exception
  (`SystemInBlocks`, in which no instructions are posted), and fails without it.
* One provider that takes a probe and stays silent keeps every other model from
  being probed again, as long as the process runs: `design:629-631` has the
  probe keep all of them sampled.  `StaysFresh` names the case (`Waiting`), and
  fails without it.
* A stream of an Anthropic provider whose opening counts came, and whose final
  count did not, is billed an estimate that is not marked `estimated`
  (`src/connector/anthropic.rs`, `has_usage`); `design:321-323` and `design:406`
  say an estimate is marked.
* `max_tokens` of a request and `default_max_tokens` of a model are cut to 32 bits
  (`as u32`, `src/ingress/openai_chat.rs:51`, `src/router.rs:81`), `"error": null` in a chunk ends a
  stream as an error would, and the finish reason a client reads is always
  `stop` or `end_turn`.
* No parser reads tool definitions and no connector tool calls, so that the tool
  loop of multimodal ends in its first turn.

## 7. Not modelled

Status codes, headers, encryption, logging, identifiers and times in frames, the
trace of the playground, static assets and the web console: stateless translation
or input and output.  Settings, the queries of statistics and the playground's
calls, which are written to no statistics.  Tools, temperature and finish reasons
between the protocols, since nothing in the program makes or reads them.  The
parsing of the prices document and the matching of its names (section 5).  Two
processes on one data base: the documents speak of one.
