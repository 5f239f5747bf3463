--------------------------- MODULE StreamContract ---------------------------
(***************************************************************************)
(* The event contract of a stream (section 6.1 of the design document): an *)
(* opened stream begins with Started, then come any number of deltas, and  *)
(* exactly one Done or Error ends it, upon which the channel closes.  This *)
(* is what the request pipeline is entitled to assume of the egress task.  *)
(***************************************************************************)
EXTENDS StreamOps

VARIABLES
    ch,     \* the channel
    sent    \* history: every event that was put into it

contractVars == <<ch, sent>>

ContractInit == ch = NoStream /\ sent = << >>

\* A stream is opened once, with Started in it.
Connect ==
    /\ sent = << >>
    /\ ch' = Connected
    /\ sent' = <<"started">>

Emit(kind) ==
    /\ CanSend(ch)
    /\ ch' = Send(ch, kind)
    /\ sent' = Append(sent, kind)

Take ==
    /\ CanRecv(ch)
    /\ ch' = Recv(ch)
    /\ UNCHANGED sent

\* The client leaves, and the receiver is dropped with all that is queued.
Leave ==
    /\ ch.rx
    /\ ch' = DropReceiver(ch)
    /\ UNCHANGED sent

\* Only a sender without a receiver may end without a terminal event.
GiveUp ==
    /\ ch.open /\ ~ch.rx
    /\ ch' = DropSender(ch)
    /\ UNCHANGED sent

ContractNext ==
    \/ Connect
    \/ \E kind \in EventKinds \ {"started"} : Emit(kind)
    \/ Take \/ Leave \/ GiveUp

ContractSpec == ContractInit /\ [][ContractNext]_contractVars

\* The shape of everything that was ever sent, which the steps above never
\* state: Started is the first event and no other, a terminal event is the
\* last, the channel holds a suffix of what was sent, no more than it has
\* room for, and a stream that closed on a listening client was terminated.
WellFormed == sent # << >> =>
    /\ \A i \in DOMAIN sent : sent[i] = "started" <=> i = 1
    /\ \A i \in DOMAIN sent : sent[i] \in Terminal => i = Len(sent)
    /\ Len(ch.queue) <= ChannelCap
    /\ Len(ch.queue) <= Len(sent)
    /\ \A i \in DOMAIN ch.queue : ch.queue[i] = sent[Len(sent) - Len(ch.queue) + i]
    /\ ch.rx => (~ch.open <=> sent[Len(sent)] \in Terminal)
=============================================================================
