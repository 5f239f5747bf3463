------------------------------ MODULE Process ------------------------------
(***************************************************************************)
(* The life of the process (main.rs): it opens the data base and           *)
(* initialises it, spawns the probe loop, seeds the default prices, spawns *)
(* the task that refreshes them, and serves until a signal or a crash      *)
(* ends it; then it may be started again.  The data base outlives it:      *)
(* samples, default prices, and what Bootstrap lists.  One process uses it *)
(* at a time.                                                              *)
(***************************************************************************)
EXTENDS ProbeLoop, PriceRefresh, Bootstrap

CONSTANT MaxEnds        \* bound: ends of a process

ASSUME ProcessAssumption == MaxEnds \in Nat

VARIABLE ends           \* bound: ends so far

allVars == <<vars, refreshVars, bootVars, ends>>

\* A process has the loops that it has spawned, and none when it is down.
ProcessTypeOK ==
    /\ ProbeTypeOK /\ RefreshTypeOK /\ BootTypeOK
    /\ pc # "exited" => phase \in WithProbe
    /\ refresher \in {"off", "exited"} \/ phase \in WithRefresher
    /\ phase = "returning" => shutdown
    /\ ends \in 0 .. MaxEnds

\* The data base may come with samples; no loop runs yet.
ProcessInit ==
    /\ sampled \in SUBSET Models /\ fresh \in SUBSET sampled
    /\ pc = "exited" /\ todo = {} /\ current = {} /\ shutdown = FALSE
    /\ RefreshInit
    /\ BootInit
    /\ ends = 0

-----------------------------------------------------------------------------
(* main, from the data base to the servers *)

Booting ==
    /\ Boot
    /\ UNCHANGED <<vars, refreshVars, ends>>

\* The addresses are in order, and the probe loop is spawned.
SpawnProbe ==
    /\ Bound
    /\ pc' = "select" /\ shutdown' = FALSE
    /\ UNCHANGED <<sampled, fresh, todo, current, refreshVars, ends>>

bootData == <<altered, encKey, unseen, columns, salt, token, ciphers, shown, lost, randoms>>

SpawnRefresher ==
    /\ phase' = "listen"
    /\ refresher' = "select"
    /\ UNCHANGED <<published, document, bootData, vars, ends>>

\* Mutant of CountDefaults: whatever is there, the embedded document is taken.
CountNothing ==
    /\ At("seed", "plant")
    /\ UNCHANGED <<bootData, vars, refreshVars, ends>>

\* seed_defaults_if_empty counts; if there are rows, or the count fails, ...
CountDefaults ==
    \/ /\ At("seed", "plant") /\ defaults = 0
       /\ UNCHANGED <<bootData, vars, refreshVars, ends>>
    \/ /\ phase = "seed"
       /\ SpawnRefresher
       /\ UNCHANGED defaults

\* ... it returns, else it plants the embedded document; a failure is logged.
Plant ==
    /\ phase = "plant"
    /\ \E d \in {1, defaults} : ReplaceAll(d)
    /\ SpawnRefresher

Listen ==
    /\ At("listen", "serving")
    /\ UNCHANGED <<bootData, vars, refreshVars, ends>>

\* Both servers have drained after the signal, or one has failed.
ServersEnd ==
    /\ At("serving", "returning")
    /\ shutdown' = TRUE
    /\ UNCHANGED <<sampled, fresh, pc, todo, current, bootData, refreshVars, ends>>

\* main returns, with an error of any of its steps or without, or the process
\* is killed; the runtime drops the loops at whatever they await.
End ==
    /\ phase # "down" /\ ends < MaxEnds
    /\ Gone
    /\ pc' = "exited" /\ todo' = {} /\ current' = {}
    /\ refresher' = "off" /\ document' = 0
    /\ ends' = ends + 1
    /\ UNCHANGED <<sampled, fresh, shutdown, published, defaults>>

Life == SpawnProbe \/ CountDefaults \/ Plant \/ Listen \/ ServersEnd \/ End

-----------------------------------------------------------------------------
(* What runs beside main: the two loops, a handler, and the world *)

Sampling(A) == A /\ UNCHANGED <<refreshVars, bootVars, ends>>

Probing ==
    Sampling(Tick \/ TickFails \/ Round \/ LoopExits \/ \E m \in Models : Ages(m))

Pricing(A) == A /\ UNCHANGED <<vars, bootVars, ends>>

RefresherSignalled == shutdown /\ RefresherExits

Refreshing == Pricing(RefreshTick \/ Refresh \/ RefresherSignalled \/ Publish)

ProviderKeyStored ==
    /\ StoreKey
    /\ UNCHANGED <<vars, refreshVars, ends>>

ProcessNext == Booting \/ Life \/ Probing \/ Refreshing \/ ProviderKeyStored

\* As for ProbeLoop; the same of the refreshing task, whose client gives up
\* after 30 s and whose source answers one day or another.
ProcessFairness ==
    /\ WF_allVars(Sampling(Moves))
    /\ SF_allVars(Sampling(Tick))
    /\ SF_allVars(Sampling(LoopExits))
    /\ \A m \in Models : SF_allVars(Sampling(Insert(m)))
    /\ WF_allVars(Pricing(Refresh))
    /\ SF_allVars(Pricing(RefreshTick))
    /\ SF_allVars(Pricing(RefresherSignalled))
    /\ SF_allVars(Pricing(Fetched)) /\ SF_allVars(Pricing(Replace))

ProcessSpec == ProcessInit /\ [][ProcessNext]_allVars /\ ProcessFairness
=============================================================================
