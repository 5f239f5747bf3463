------------------------------- MODULE Egress -------------------------------
(***************************************************************************)
(* The task that reads one upstream stream (connector/sse.rs, run_egress): *)
(* it gathers bytes, splits them into frames, has a translator turn each   *)
(* frame into events, and sends the events into a bounded channel, where   *)
(* it waits while the channel is full.  The client at the other end reads  *)
(* at its own pace and may leave at any time.                              *)
(*                                                                         *)
(* Bytes are counted in units of one frame.  A block with several data     *)
(* lines is several frames here: nothing happens between its lines that    *)
(* does not happen between blocks.                                         *)
(***************************************************************************)
EXTENDS SseTranslation, FiniteSets

CONSTANTS
    MaxFrameBuffer,   \* the limit on buffered bytes, in frames
    MaxChunk,         \* bound: frames completed by one chunk
    MaxText           \* bound: text frames that the provider sends

ASSUME EgressAssumption ==
    MaxFrameBuffer \in Nat /\ MaxChunk \in Nat /\ MaxText \in Nat

CountFrames == {"start", "usage"}

NoBill == [input |-> 0, output |-> 0, billable |-> 0, read |-> 0, write |-> 0,
           failed |-> FALSE]

VARIABLES
    pc,       \* "off", "read", "split", "send" (a frame's events), "last", "exit"
    speaks,   \* the connector whose translator reads, or "none"
    buf,      \* complete frames in the buffer
    rest,     \* length of the frame that is not closed yet
    tr,       \* the translator
    out,      \* events made and not yet sent
    channel,  \* the channel, with rx and the sender's side
    sent,     \* history: every event that was sent
    billed,   \* history: the call in the terminal event
    counted   \* history: the frames with counts among those in or past buf

egressVars == <<pc, speaks, buf, rest, tr, out, channel, sent, billed, counted>>

EgressTypeOK ==
    /\ pc \in {"off", "read", "split", "send", "last", "exit"}
    /\ speaks \in Protocols \cup {"none"}
    /\ (pc = "off") = (speaks = "none")
    /\ buf \in Seq(FrameKinds)
    /\ rest \in Nat
    /\ tr \in Translators
    /\ out \in Seq(EventKinds)
    /\ channel \in Streams
    /\ sent \in Seq(EventKinds)
    /\ billed \in [input : Nat, output : Nat, billable : Nat, read : Nat,
                  write : Nat, failed : BOOLEAN]
    /\ counted \subseteq CountFrames

\* No stream has been asked for.
EgressInit ==
    /\ pc = "off" /\ speaks = "none"
    /\ buf = << >> /\ rest = 0
    /\ tr = NewTranslator
    /\ out = << >>
    /\ channel = NoStream
    /\ sent = << >>
    /\ billed = NoBill
    /\ counted = {}

\* The status was 2xx: the channel is made, Started is in it, and the task
\* that reads is spawned.
Open(kind) ==
    /\ pc = "off"
    /\ pc' = "read" /\ speaks' = kind
    /\ channel' = Connected
    /\ sent' = <<"started">>
    /\ UNCHANGED <<buf, rest, tr, out, billed, counted>>

\* The call of a stream that ended as it did.
Bill(failed) ==
    LET call == Finish(speaks, tr) IN
    [input |-> call.input, output |-> call.output, billable |-> call.billable,
     read |-> call.read, write |-> call.write, failed |-> failed]

\* Mutant of Conclude: an error is billed nothing.
ConcludeUnbilled(kind) ==
    /\ pc' = "last"
    /\ out' = <<kind>>
    /\ billed' = IF kind = "error" THEN NoBill ELSE Bill(FALSE)

\* finish(), and fail(), which takes finish()'s call for its own.
Conclude(kind) ==
    /\ pc' = "last"
    /\ out' = <<kind>>
    /\ billed' = Bill(kind = "error")

-----------------------------------------------------------------------------
(* The provider *)

TextOf(frames) == Cardinality({i \in DOMAIN frames : frames[i] = "text"})

CountsIn(frames) == {frames[i] : i \in DOMAIN frames} \cap CountFrames

\* A provider counts its answer once, after its text, and counts all of it;
\* an Anthropic provider may open with the counts of the prompt.
Honest(frames) ==
    /\ tr.text + TextOf(frames) <= MaxText
    /\ "usage" \in counted => \A i \in DOMAIN frames : frames[i] \notin {"text", "usage"}
    /\ \A i, j \in DOMAIN frames :
          frames[i] = "usage" /\ i < j => frames[j] \notin {"text", "usage"}
    /\ \A i \in DOMAIN frames :
          frames[i] = "start" => speaks = "anthropic" /\ i = 1 /\ counted = {} /\ tr.text = 0

Chunks == UNION {[1 .. n -> FrameKinds] : n \in 0 .. MaxChunk}

\* Mutant of ReadChunk: the bytes of the frames are taken out twice.
ReadChunkDrainsTwice(frames, part) ==
    /\ pc = "read"
    /\ Honest(frames)
    /\ frames # << >> \/ part > 0
    /\ rest' = IF frames = << >> THEN rest + part ELSE part - Len(frames)
    /\ IF rest + Len(frames) + part > MaxFrameBuffer
         THEN Conclude("error") /\ UNCHANGED <<buf, counted>>
         ELSE /\ buf' = frames /\ counted' = counted \cup CountsIn(frames)
              /\ pc' = "split" /\ UNCHANGED <<out, billed>>
    /\ UNCHANGED <<speaks, tr, channel, sent>>

\* Mutant of ReadChunk: only the new bytes are held against the limit.
ReadChunkForgetsRest(frames, part) ==
    /\ pc = "read"
    /\ Honest(frames)
    /\ frames # << >> \/ part > 0
    /\ rest' = IF frames = << >> THEN rest + part ELSE part
    /\ IF Len(frames) + part > MaxFrameBuffer
         THEN Conclude("error") /\ UNCHANGED <<buf, counted>>
         ELSE /\ buf' = frames /\ counted' = counted \cup CountsIn(frames)
              /\ pc' = "split" /\ UNCHANGED <<out, billed>>
    /\ UNCHANGED <<speaks, tr, channel, sent>>

\* A chunk completes some frames and begins another of length `part`.  The
\* guard counts all that is in the buffer before the frames are taken out.
ReadChunk(frames, part) ==
    /\ pc = "read"
    /\ Honest(frames)
    /\ frames # << >> \/ part > 0
    /\ rest' = IF frames = << >> THEN rest + part ELSE part
    /\ IF rest + Len(frames) + part > MaxFrameBuffer
         THEN Conclude("error") /\ UNCHANGED <<buf, counted>>
         ELSE /\ buf' = frames /\ counted' = counted \cup CountsIn(frames)
              /\ pc' = "split" /\ UNCHANGED <<out, billed>>
    /\ UNCHANGED <<speaks, tr, channel, sent>>

\* The connection breaks.
ReadError ==
    /\ pc = "read"
    /\ Conclude("error")
    /\ UNCHANGED <<speaks, buf, rest, tr, channel, sent, counted>>

\* Mutant of ReadEof: without [DONE] the stream has no Done.
ReadEofSilent ==
    /\ pc = "read"
    /\ pc' = "exit"
    /\ channel' = DropSender(channel)
    /\ UNCHANGED <<speaks, buf, rest, tr, out, sent, billed, counted>>

\* The body ends, [DONE] or not, and even within a frame.
ReadEof ==
    /\ pc = "read"
    /\ Conclude("done")
    /\ UNCHANGED <<speaks, buf, rest, tr, channel, sent, counted>>

-----------------------------------------------------------------------------
(* The task *)

SplitDone ==
    /\ pc = "split" /\ buf = << >>
    /\ pc' = "read"
    /\ UNCHANGED <<speaks, buf, rest, tr, out, channel, sent, billed, counted>>

\* translator.push on the first frame.
Translate ==
    /\ pc = "split" /\ buf # << >>
    /\ buf' = Tail(buf)
    /\ LET frame == Head(buf) IN
          \/ /\ frame = "text"
             /\ out' = <<"delta">>
             /\ pc' = "send"
             /\ UNCHANGED billed
          \/ /\ frame \in {"start", "usage", "other"}
             /\ UNCHANGED <<pc, out, billed>>
          \/ /\ frame = "end"
             /\ Conclude("done")
          \/ /\ frame = "bad"
             /\ Conclude("error")
    /\ tr' = Push(speaks, tr, Head(buf), Counted(speaks, tr.text))
    /\ UNCHANGED <<speaks, rest, channel, sent, counted>>

\* tx.send has room: after a frame's event on to the next frame, after the
\* terminal event the task returns.
SendEvent ==
    /\ pc \in {"send", "last"}
    /\ CanSend(channel)
    /\ channel' = Send(channel, Head(out))
    /\ sent' = Append(sent, Head(out))
    /\ out' = << >>
    /\ pc' = IF pc = "send" THEN "split" ELSE "exit"
    /\ UNCHANGED <<speaks, buf, rest, tr, billed, counted>>

\* Mutant of SendRefused: the event is sent again and again.
SendRefusedRetried ==
    /\ pc \in {"send", "last"}
    /\ ~channel.rx
    /\ UNCHANGED egressVars

\* tx.send fails, whether it was waiting for room or not.
SendRefused ==
    /\ pc \in {"send", "last"}
    /\ ~channel.rx
    /\ channel' = DropSender(channel)
    /\ out' = << >>
    /\ pc' = "exit"
    /\ UNCHANGED <<speaks, buf, rest, tr, sent, billed, counted>>

-----------------------------------------------------------------------------
(* The client *)

ClientTakes ==
    /\ CanRecv(channel)
    /\ channel' = Recv(channel)
    /\ UNCHANGED <<pc, speaks, buf, rest, tr, out, sent, billed, counted>>

ClientLeaves ==
    /\ channel.rx
    /\ channel' = DropReceiver(channel)
    /\ UNCHANGED <<pc, speaks, buf, rest, tr, out, sent, billed, counted>>

TaskStep == SplitDone \/ Translate \/ SendEvent \/ SendRefused

ProviderStep ==
    \/ \E frames \in Chunks, part \in 0 .. MaxFrameBuffer : ReadChunk(frames, part)
    \/ ReadError
    \/ ReadEof

EgressNext ==
    \/ TaskStep
    \/ ProviderStep
    \/ ClientTakes \/ ClientLeaves
    \/ pc = "exit" /\ ~CanRecv(channel) /\ UNCHANGED egressVars

\* The task runs when it can, a connected client reads on, and the provider
\* does not keep the body open forever.
EgressFairness ==
    /\ WF_egressVars(TaskStep)
    /\ WF_egressVars(ClientTakes)
    /\ SF_egressVars(ReadError \/ ReadEof)
=============================================================================
