----------------------------- MODULE StreamOps -----------------------------
(***************************************************************************)
(* The event channel between the task that reads an upstream stream        *)
(* (connector/sse.rs, run_egress) and the body generator that forwards it  *)
(* to the client (ingress/handler.rs, stream_real): a bounded tokio mpsc   *)
(* channel with one sender and one receiver.                               *)
(*                                                                         *)
(*   queue  the events sent and not yet received                           *)
(*   open   the sender is alive; run_egress returns, and so drops it, as   *)
(*          soon as it has sent Done or Error                              *)
(*   rx     the receiver is alive; the client's disconnect drops it        *)
(*                                                                         *)
(* Both the abstract stream of the request pipeline and the abstract       *)
(* specification of the egress task are written with these operators.      *)
(***************************************************************************)
EXTENDS Naturals, Sequences

CONSTANT ChannelCap      \* capacity of the channel, 64 in the code

ASSUME ChannelCapAssumption == ChannelCap \in Nat \ {0}

Terminal   == {"done", "error"}
EventKinds == {"started", "delta"} \cup Terminal

Streams == [queue : Seq(EventKinds), open : BOOLEAN, rx : BOOLEAN]

\* No stream has been connected.
NoStream == [queue |-> << >>, open |-> FALSE, rx |-> FALSE]

\* run_egress sends Started before it spawns the reading task.
Connected == [queue |-> <<"started">>, open |-> TRUE, rx |-> TRUE]

CanSend(s) == s.open /\ s.rx /\ Len(s.queue) < ChannelCap

\* Mutant of Send: the sender outlives the terminal event.
SendStaysOpen(s, kind) ==
    [queue |-> Append(s.queue, kind), open |-> s.open, rx |-> s.rx]

Send(s, kind) ==
    [queue |-> Append(s.queue, kind), open |-> kind \notin Terminal, rx |-> s.rx]

CanRecv(s) == s.rx /\ s.queue # << >>

Recv(s) == [queue |-> Tail(s.queue), open |-> s.open, rx |-> s.rx]

\* recv() answers None: nothing is queued and no sender is left.
Exhausted(s) == s.rx /\ s.queue = << >> /\ ~s.open

DropReceiver(s) == [queue |-> << >>, open |-> s.open, rx |-> FALSE]

\* The sender notices that nobody listens, or simply ends.
DropSender(s) == [queue |-> s.queue, open |-> FALSE, rx |-> s.rx]
=============================================================================
