----------------------------- MODULE ProbeLoop -----------------------------
(***************************************************************************)
(* The background loop that keeps latency samples fresh (probe.rs,         *)
(* db/latency.rs), with the end of the process that main.rs asks it for.   *)
(* Of the samples of a model only two things matter here: that there is    *)
(* one, and that the newest is within the window of two intervals.         *)
(***************************************************************************)
EXTENDS Naturals, FiniteSets

CONSTANTS
    Models,         \* models of the registry
    Answering,      \* those whose provider answers every probe
    Silent          \* those whose provider may take a probe and never answer

\* The rest fail in time: gone, without a key, or answered by an error.
ASSUME ProbeAssumption == Answering \subseteq Models /\ Silent \subseteq Models \ Answering

VARIABLES
    sampled,    \* the models with a row in latency_samples
    fresh,      \* those whose newest row is within the window
    pc,         \* "select", the loop waits for a tick or shutdown; "next", "resolve",
                \* "complete" and "insert" within probe_once; "exited"
    todo,       \* models of the list probe_once has yet to come to
    current,    \* the model it is at, as a set of one
    shutdown    \* the watch channel's value

vars == <<sampled, fresh, pc, todo, current, shutdown>>

ProbeTypeOK ==
    /\ sampled \subseteq Models /\ fresh \subseteq sampled
    /\ pc \in {"select", "next", "resolve", "complete", "insert", "exited"}
    /\ todo \subseteq sampled
    /\ current \subseteq Models /\ Cardinality(current) <= 1
    /\ (current = {}) <=> pc \in {"select", "next", "exited"}
    /\ current \cap todo = {}
    /\ shutdown \in BOOLEAN

\* A data base may come with samples of an earlier process or of a script.
Init ==
    /\ sampled \in SUBSET Models
    /\ fresh \in SUBSET sampled
    /\ pc = "select"
    /\ todo = {} /\ current = {}
    /\ shutdown = FALSE

-----------------------------------------------------------------------------
\* latency_models_without_recent selects from the samples alone.
WithoutRecent == sampled \ fresh

\* The ticker fires: probe_once begins with its one query.
Tick ==
    /\ pc = "select"
    /\ todo' = WithoutRecent
    /\ pc' = "next"
    /\ UNCHANGED <<sampled, fresh, current, shutdown>>

\* The query fails, and probe_once returns.
TickFails ==
    /\ pc = "select"
    /\ UNCHANGED vars

\* Mutant of NextModel: a model stays in the list while it is probed.
NextModelStays ==
    /\ pc = "next"
    /\ \E m \in todo : current' = {m} /\ todo' = todo
    /\ pc' = "resolve"
    /\ UNCHANGED <<sampled, fresh, shutdown>>

\* The list is in no particular order.
NextModel ==
    /\ pc = "next"
    /\ \E m \in todo :
          /\ current' = {m}
          /\ todo' = todo \ {m}
    /\ pc' = "resolve"
    /\ UNCHANGED <<sampled, fresh, shutdown>>

RoundEnds ==
    /\ pc = "next" /\ todo = {}
    /\ pc' = "select"
    /\ UNCHANGED <<sampled, fresh, todo, current, shutdown>>

Resolved ==
    /\ pc = "resolve"
    /\ pc' = "complete"
    /\ UNCHANGED <<sampled, fresh, todo, current, shutdown>>

Answered ==
    /\ pc = "complete"
    /\ pc' = "insert"
    /\ UNCHANGED <<sampled, fresh, todo, current, shutdown>>

Skip ==
    /\ pc' = "next"
    /\ current' = {}

\* Mutant of NotAnswered: the first failure ends the round.
NotAnsweredReturns ==
    /\ pc \in {"resolve", "complete"}
    /\ ~(current \subseteq Answering)
    /\ pc' = "select" /\ current' = {} /\ todo' = {}
    /\ UNCHANGED <<sampled, fresh, shutdown>>

\* The model is gone or has no key, or its provider answers with an error.
NotAnswered ==
    /\ pc \in {"resolve", "complete"}
    /\ ~(current \subseteq Answering)
    /\ Skip
    /\ UNCHANGED <<sampled, fresh, todo, shutdown>>

Insert(m) ==
    /\ pc = "insert" /\ current = {m}
    /\ sampled' = sampled \cup {m}
    /\ fresh' = fresh \cup {m}
    /\ Skip
    /\ UNCHANGED <<todo, shutdown>>

\* The error of the statement is thrown away.
InsertFails ==
    /\ pc = "insert"
    /\ Skip
    /\ UNCHANGED <<sampled, fresh, todo, shutdown>>

-----------------------------------------------------------------------------
\* Time passes, and the newest sample of m leaves the window.
Ages(m) ==
    /\ fresh' = fresh \ {m}
    /\ UNCHANGED <<sampled, pc, todo, current, shutdown>>

\* Both servers have ended, or one has failed.
Shutdown ==
    /\ ~shutdown
    /\ shutdown' = TRUE
    /\ UNCHANGED <<sampled, fresh, pc, todo, current>>

\* main returns without waiting for the loop, and the runtime drops it at
\* whatever it awaits.
Dropped ==
    /\ shutdown /\ pc # "exited"
    /\ pc' = "exited" /\ todo' = {} /\ current' = {}
    /\ UNCHANGED <<sampled, fresh, shutdown>>

\* select! takes either branch when both are ready; within probe_once the
\* signal is not looked at.
LoopExits ==
    /\ pc = "select" /\ shutdown
    /\ pc' = "exited"
    /\ UNCHANGED <<sampled, fresh, todo, current, shutdown>>

Round == NextModel \/ RoundEnds \/ Resolved \/ Answered \/ NotAnswered
         \/ InsertFails \/ \E m \in Models : Insert(m)

Next == Tick \/ TickFails \/ Round \/ LoopExits \/ Shutdown \/ Dropped
        \/ \E m \in Models : Ages(m)

\* The loop awaits complete, and the resolver's client has no timeout: only
\* the provider can end this, or the runtime.
Waiting == pc = "complete" /\ current \cap Silent # {}

Moves == ~Waiting /\ Round

\* tokio polls the loop, the ticker fires again and again, a statement that
\* is tried again and again succeeds, and select! is fair between its
\* branches.  Providers answer in some way, but for the silent ones.
Fairness ==
    /\ WF_vars(Moves)
    /\ SF_vars(Tick)
    /\ SF_vars(LoopExits)
    /\ \A m \in Models : SF_vars(Insert(m))

Spec == Init /\ [][Next]_vars /\ Fairness
=============================================================================
