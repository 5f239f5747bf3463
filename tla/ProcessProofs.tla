--------------------------- MODULE ProcessProofs ---------------------------
(***************************************************************************)
(* The life of the process, for any models, columns and documents, and any *)
(* number of starts and crashes: types, the operator's token, the salt and *)
(* the columns, and the snapshot of default prices.                        *)
(***************************************************************************)
EXTENDS ProcessProperties, FiniteSetTheorems, TLAPS

USE DEF vars, refreshVars, bootVars, bootData, allVars

-----------------------------------------------------------------------------
(* What is known at each statement of main *)

AfterToken   == {"print", "binds", "seed", "plant", "listen", "serving", "returning"}
AfterSalt    == {"token"} \cup AfterToken
AfterMigrate == {"salt"} \cup AfterSalt

\* A token is printed as it was stored, and a stored one is printed by the
\* process that has made it or by none.
TokenInv ==
    /\ unseen # 0 => phase = "print" /\ unseen = token
    /\ phase = "print" => unseen # 0
    /\ shown \subseteq {token}
    /\ token # 0 => token \in shown \/ lost \/ unseen = token
    /\ phase \in AfterToken => token # 0

\* There is one salt, and the key in memory is made from it.
SaltInv ==
    /\ ciphers \subseteq {salt}
    /\ phase \in AfterSalt => encKey = salt /\ salt # 0

ColumnsInv ==
    /\ phase = "migrate" => \A i \in 1 .. altered : Columns[i] \in columns
    /\ phase \in AfterMigrate => columns = Range(Columns)

\* No document on its way is older than the snapshot, and the embedded one is
\* planted in an empty table only.
PricesInv ==
    /\ defaults <= published /\ document <= published
    /\ document # 0 => defaults <= document
    /\ phase = "plant" => defaults = 0

Inv == ProcessTypeOK /\ TokenInv /\ SaltInv /\ ColumnsInv /\ PricesInv

LEMMA InitInv == ProcessInit => Inv
<1> SUFFICES ASSUME ProcessInit PROVE Inv
  OBVIOUS
<1> USE DEF ProcessInit, RefreshInit, BootInit
<1>1. ProbeTypeOK
  <2>1. Cardinality(current) <= 1
    <3>1. Cardinality({}) = 0 BY FS_EmptySet
    <3>2. current = {} OBVIOUS
    <3>3. QED BY <3>1, <3>2
  <2>2. sampled \subseteq Models /\ fresh \subseteq sampled OBVIOUS
  <2>3. /\ pc = "exited" /\ todo = {} /\ current = {} /\ shutdown = FALSE
    OBVIOUS
  <2> HIDE DEF ProcessInit
  <2>4. QED BY <2>1, <2>2, <2>3 DEF ProbeTypeOK
<1>2. RefreshTypeOK BY RefreshAssumption DEF RefreshTypeOK, Documents
<1>3. BootTypeOK
  <2>1. 0 \in 0 .. Len(Columns) /\ 0 \in 0 .. MaxRandom BY BootAssumption
  <2>2. columns \subseteq Range(Columns) OBVIOUS
  <2>3. QED BY <2>1, <2>2 DEF BootTypeOK
<1>4. ProcessTypeOK BY <1>1, <1>2, <1>3, ProcessAssumption DEF ProcessTypeOK
<1>5. TokenInv /\ SaltInv /\ ColumnsInv
  BY DEF TokenInv, SaltInv, ColumnsInv, AfterToken, AfterSalt, AfterMigrate
<1>6. PricesInv BY DEF PricesInv
<1>7. QED BY <1>4, <1>5, <1>6 DEF Inv

-----------------------------------------------------------------------------
(* The statements before the process serves *)

LEMMA BootType ==
    ASSUME BootTypeOK, TokenInv, Boot
    PROVE  BootTypeOK'
<1> USE DEF BootTypeOK, Starting
<1>0. Len(Columns) \in Nat /\ MaxRandom \in Nat BY BootAssumption
<1>1. CASE Start BY <1>0, <1>1 DEF Start, At
<1>2. CASE Alter
  <2>1. altered + 1 \in 1 .. Len(Columns) BY <1>0, <1>2 DEF Alter
  <2>2. Columns[altered + 1] \in Range(Columns) BY <2>1, BootAssumption DEF Range
  <2>3. QED BY <1>0, <1>2, <2>1, <2>2 DEF Alter
<1>3. CASE Opened BY <1>3 DEF Opened, At
<1>4. CASE EnsureSalt
  <2>1. salt' \in 0 .. MaxRandom /\ randoms' \in 0 .. MaxRandom
    BY <1>0, <1>4 DEF EnsureSalt, Made
  <2>2. QED BY <1>4, <2>1 DEF EnsureSalt, At
<1>5. CASE EnsureToken
  <2>1. token' \in 0 .. MaxRandom /\ randoms' \in 0 .. MaxRandom /\ unseen' \in 0 .. MaxRandom
    BY <1>0, <1>5 DEF EnsureToken, Made
  <2>2. QED BY <1>5, <2>1 DEF EnsureToken, At
<1>6. CASE PrintToken
  BY <1>0, <1>6 DEF PrintToken, At, TokenInv
<1>7. QED BY <1>1, <1>2, <1>3, <1>4, <1>5, <1>6 DEF Boot

\* Where a statement leads, and what it can find in memory.
LEMMA BootGoesOn ==
    ASSUME Boot
    PROVE  /\ phase \in {"down", "migrate", "salt", "token", "print"}
           /\ phase' \in {"migrate", "salt", "token", "print", "binds"}
BY DEF Boot, Start, Alter, Opened, EnsureSalt, EnsureToken, PrintToken, At

LEMMA BootToken ==
    ASSUME BootTypeOK, TokenInv, Boot
    PROVE  TokenInv'
<1> USE DEF TokenInv, AfterToken
<1>1. CASE Start BY <1>1 DEF Start, At
<1>2. CASE Alter BY <1>2 DEF Alter
<1>3. CASE Opened BY <1>3 DEF Opened, At
<1>4. CASE EnsureSalt BY <1>4 DEF EnsureSalt, At
<1>5. CASE EnsureToken
  <2>1. CASE token = 0
    <3>1. shown = {}
      <4>1. shown \subseteq 1 .. MaxRandom BY DEF BootTypeOK
      <4>2. 0 \notin 1 .. MaxRandom BY BootAssumption
      <4>3. QED BY <2>1, <4>1, <4>2
    <3>2. randoms + 1 # 0 BY BootAssumption DEF BootTypeOK
    <3>3. QED BY <1>5, <2>1, <3>1, <3>2 DEF EnsureToken, At
  <2>2. CASE token # 0 BY <1>5, <2>2 DEF EnsureToken, At
  <2>3. QED BY <2>1, <2>2
<1>6. CASE PrintToken BY <1>6 DEF PrintToken, At
<1>7. QED BY <1>1, <1>2, <1>3, <1>4, <1>5, <1>6 DEF Boot

LEMMA BootSalt ==
    ASSUME BootTypeOK, SaltInv, Boot
    PROVE  SaltInv'
<1> USE DEF SaltInv, AfterSalt, AfterToken
<1>1. CASE Start BY <1>1 DEF Start, At
<1>2. CASE Alter BY <1>2 DEF Alter
<1>3. CASE Opened BY <1>3 DEF Opened, At
<1>4. CASE EnsureSalt
  <2>1. CASE salt = 0
    <3>1. ciphers = {}
      <4>1. ciphers \subseteq 1 .. MaxRandom BY DEF BootTypeOK
      <4>2. 0 \notin 1 .. MaxRandom BY BootAssumption
      <4>3. QED BY <2>1, <4>1, <4>2
    <3>2. randoms + 1 # 0 BY BootAssumption DEF BootTypeOK
    <3>3. QED BY <1>4, <2>1, <3>1, <3>2 DEF EnsureSalt, Made, At
  <2>2. CASE salt # 0 BY <1>4, <2>2 DEF EnsureSalt, At
  <2>3. QED BY <2>1, <2>2
<1>5. CASE EnsureToken BY <1>5 DEF EnsureToken, At
<1>6. CASE PrintToken BY <1>6 DEF PrintToken, At
<1>7. QED BY <1>1, <1>2, <1>3, <1>4, <1>5, <1>6 DEF Boot

LEMMA BootColumns ==
    ASSUME BootTypeOK, ColumnsInv, Boot
    PROVE  ColumnsInv'
<1> USE DEF ColumnsInv, AfterMigrate, AfterSalt, AfterToken
<1>0. Len(Columns) \in Nat BY BootAssumption
<1>1. CASE Start BY <1>1 DEF Start, At
<1>2. CASE Alter
  <2>1. phase = "migrate" /\ phase' = phase /\ altered' = altered + 1
        /\ columns' = columns \cup {Columns[altered + 1]}
    BY <1>2 DEF Alter
  <2>2. altered \in Nat BY <1>0 DEF BootTypeOK
  <2>3. \A i \in 1 .. altered + 1 : i \in 1 .. altered \/ i = altered + 1 BY <2>2
  <2>4. \A i \in 1 .. altered' : Columns[i] \in columns' BY <2>1, <2>3
  <2>5. QED BY <2>1, <2>4
<1>3. CASE Opened
  <2>1. phase = "migrate" /\ phase' = "salt" /\ altered = Len(Columns) /\ columns' = columns
    BY <1>3 DEF Opened, At
  <2>2. Range(Columns) \subseteq columns
    <3>1. DOMAIN Columns = 1 .. Len(Columns) BY BootAssumption
    <3>2. QED BY <2>1, <3>1 DEF Range
  <2>3. columns = Range(Columns) BY <2>2 DEF BootTypeOK
  <2>4. QED BY <2>1, <2>3
<1>4. CASE EnsureSalt BY <1>4 DEF EnsureSalt, At
<1>5. CASE EnsureToken BY <1>5 DEF EnsureToken, At
<1>6. CASE PrintToken BY <1>6 DEF PrintToken, At
<1>7. QED BY <1>1, <1>2, <1>3, <1>4, <1>5, <1>6 DEF Boot

LEMMA BootingInv ==
    ASSUME Inv, Booting
    PROVE  Inv'
<1> USE DEF Inv, Booting
<1>1. /\ phase \in {"down", "migrate", "salt", "token", "print"}
      /\ phase' \in {"migrate", "salt", "token", "print", "binds"}
  BY BootGoesOn
<1>2. BootTypeOK /\ pc = "exited" /\ refresher \in {"off", "exited"}
  BY <1>1 DEF ProcessTypeOK, WithProbe, WithRefresher
<1>3. BootTypeOK' BY <1>2, BootType
<1>4. ProbeTypeOK' /\ RefreshTypeOK' BY DEF ProcessTypeOK, ProbeTypeOK, RefreshTypeOK
<1>5. ProcessTypeOK' BY <1>1, <1>2, <1>3, <1>4 DEF ProcessTypeOK
<1>6. TokenInv' /\ SaltInv' /\ ColumnsInv' BY <1>2, BootToken, BootSalt, BootColumns
<1>7. PricesInv' BY <1>1 DEF PricesInv
<1>8. QED BY <1>5, <1>6, <1>7

-----------------------------------------------------------------------------
(* main, and what it spawns *)

\* What a statement does that leaves all that Bootstrap keeps as it is.
LEMMA PhaseMoves ==
    ASSUME Inv, UNCHANGED bootData, phase \in AfterToken \ {"print"},
           phase' \in AfterToken \ {"print"}
    PROVE  TokenInv' /\ SaltInv' /\ ColumnsInv' /\ BootTypeOK'
<1> USE DEF Inv, AfterToken, AfterSalt, AfterMigrate
<1>1. TokenInv' BY DEF TokenInv
<1>2. SaltInv' BY DEF SaltInv
<1>3. ColumnsInv' BY DEF ColumnsInv
<1>4. BootTypeOK'
  <2>1. phase' \in {"down", "serving", "returning"} \cup Starting BY DEF Starting
  <2>2. QED BY <2>1 DEF ProcessTypeOK, BootTypeOK
<1>5. QED BY <1>1, <1>2, <1>3, <1>4

LEMMA SpawnProbeInv ==
    ASSUME Inv, SpawnProbe
    PROVE  Inv'
<1>1. /\ phase = "binds" /\ phase' = "seed" /\ UNCHANGED bootData
      /\ pc' = "select" /\ shutdown' = FALSE
      /\ UNCHANGED <<sampled, fresh, todo, current, refreshVars, ends>>
  BY DEF SpawnProbe, Bound, At
<1>2. TokenInv' /\ SaltInv' /\ ColumnsInv' /\ BootTypeOK'
  BY <1>1, PhaseMoves DEF AfterToken
<1>3. pc = "exited" /\ refresher \in {"off", "exited"}
  BY <1>1 DEF Inv, ProcessTypeOK, WithProbe, WithRefresher
<1>4. ProbeTypeOK' BY <1>1, <1>3 DEF Inv, ProcessTypeOK, ProbeTypeOK
<1>5. RefreshTypeOK' BY <1>1 DEF Inv, ProcessTypeOK, RefreshTypeOK
<1>6. ProcessTypeOK'
  BY <1>1, <1>2, <1>3, <1>4, <1>5 DEF Inv, ProcessTypeOK, WithProbe
<1>7. PricesInv' BY <1>1 DEF Inv, PricesInv
<1>8. QED BY <1>2, <1>6, <1>7 DEF Inv

\* The refresher starts with nothing on its way.
LEMMA SpawnRefresherInv ==
    ASSUME Inv, phase \in {"seed", "plant"}, SpawnRefresher, defaults' \in {1, defaults},
           phase = "seed" => defaults' = defaults
    PROVE  Inv'
<1>1. /\ phase' = "listen" /\ refresher' = "select"
      /\ UNCHANGED <<published, document, bootData, vars, ends>>
  BY DEF SpawnRefresher
<1>2. TokenInv' /\ SaltInv' /\ ColumnsInv' /\ BootTypeOK'
  BY <1>1, PhaseMoves DEF AfterToken
<1>3. refresher \in {"off", "exited"} BY DEF Inv, ProcessTypeOK, WithRefresher
<1>4. ProbeTypeOK' BY <1>1 DEF Inv, ProcessTypeOK, ProbeTypeOK
<1>5. document = 0 BY <1>3 DEF Inv, ProcessTypeOK, RefreshTypeOK
<1>6. published \in Nat \ {0} /\ defaults \in Nat /\ defaults' \in Documents
  BY RefreshAssumption DEF Inv, ProcessTypeOK, RefreshTypeOK, Documents
<1>7. RefreshTypeOK' BY <1>1, <1>5, <1>6 DEF Inv, ProcessTypeOK, RefreshTypeOK
<1>8. ProcessTypeOK'
  BY <1>1, <1>2, <1>4, <1>7 DEF Inv, ProcessTypeOK, WithProbe, WithRefresher
<1>9. PricesInv'
  <2>1. defaults' <= published' BY <1>1, <1>6 DEF Inv, PricesInv
  <2>2. document' <= published' BY <1>1, <1>5, <1>6
  <2>3. QED BY <1>1, <1>5, <2>1, <2>2 DEF PricesInv
<1>10. QED BY <1>2, <1>8, <1>9 DEF Inv

LEMMA CountDefaultsInv ==
    ASSUME Inv, CountDefaults
    PROVE  Inv'
<1>1. CASE At("seed", "plant") /\ defaults = 0 /\ UNCHANGED <<bootData, vars, refreshVars, ends>>
  <2>1. phase = "seed" /\ phase' = "plant" BY <1>1 DEF At
  <2>2. TokenInv' /\ SaltInv' /\ ColumnsInv' /\ BootTypeOK'
    BY <1>1, <2>1, PhaseMoves DEF AfterToken
  <2>3. ProbeTypeOK' /\ RefreshTypeOK'
    BY <1>1 DEF Inv, ProcessTypeOK, ProbeTypeOK, RefreshTypeOK
  <2>4. ProcessTypeOK'
    BY <1>1, <2>1, <2>2, <2>3 DEF Inv, ProcessTypeOK, WithProbe, WithRefresher
  <2>5. PricesInv' BY <1>1 DEF Inv, PricesInv
  <2>6. QED BY <2>2, <2>4, <2>5 DEF Inv
<1>2. CASE phase = "seed" /\ SpawnRefresher /\ UNCHANGED defaults BY <1>2, SpawnRefresherInv
<1>3. QED BY <1>1, <1>2 DEF CountDefaults

LEMMA PlantInv ==
    ASSUME Inv, Plant
    PROVE  Inv'
BY SpawnRefresherInv DEF Plant, ReplaceAll

LEMMA ServingInv ==
    ASSUME Inv, Listen \/ ServersEnd
    PROVE  Inv'
<1>1. /\ phase \in {"listen", "serving"} /\ phase' \in {"serving", "returning"}
      /\ phase' = "returning" => shutdown' = TRUE
      /\ shutdown' \in BOOLEAN
      /\ UNCHANGED <<sampled, fresh, pc, todo, current, bootData, refreshVars, ends>>
  BY DEF Listen, ServersEnd, At, Inv, ProcessTypeOK, ProbeTypeOK
<1>2. TokenInv' /\ SaltInv' /\ ColumnsInv' /\ BootTypeOK'
  BY <1>1, PhaseMoves DEF AfterToken
<1>3. ProbeTypeOK' BY <1>1 DEF Inv, ProcessTypeOK, ProbeTypeOK
<1>4. RefreshTypeOK' BY <1>1 DEF Inv, ProcessTypeOK, RefreshTypeOK
<1>5. ProcessTypeOK'
  BY <1>1, <1>2, <1>3, <1>4 DEF Inv, ProcessTypeOK, WithProbe, WithRefresher
<1>6. PricesInv' BY <1>1 DEF Inv, PricesInv
<1>7. QED BY <1>2, <1>5, <1>6 DEF Inv

\* Whatever statement the process ends at.
LEMMA EndInv ==
    ASSUME Inv, End
    PROVE  Inv'
<1>1. /\ phase' = "down" /\ altered' = 0 /\ encKey' = 0 /\ unseen' = 0
      /\ lost' = (lost \/ unseen # 0)
      /\ UNCHANGED <<columns, salt, token, ciphers, shown, randoms>>
      /\ pc' = "exited" /\ todo' = {} /\ current' = {}
      /\ refresher' = "off" /\ document' = 0
      /\ ends < MaxEnds /\ ends' = ends + 1
      /\ UNCHANGED <<sampled, fresh, shutdown, published, defaults>>
  BY DEF End, Gone
<1>2. BootTypeOK'
  <2>1. 0 \in 0 .. Len(Columns) /\ 0 \in 0 .. MaxRandom BY BootAssumption
  <2>2. lost' \in BOOLEAN BY <1>1
  <2>3. QED BY <1>1, <2>1, <2>2 DEF Inv, ProcessTypeOK, BootTypeOK
<1>3. ProbeTypeOK'
  <2>1. Cardinality(current') <= 1
    <3>1. Cardinality({}) = 0 BY FS_EmptySet
    <3>2. QED BY <1>1, <3>1
  <2>2. QED BY <1>1, <2>1 DEF Inv, ProcessTypeOK, ProbeTypeOK
<1>4. RefreshTypeOK'
  BY <1>1, RefreshAssumption DEF Inv, ProcessTypeOK, RefreshTypeOK, Documents
<1>5. ends' \in 0 .. MaxEnds BY <1>1, ProcessAssumption DEF Inv, ProcessTypeOK
<1>6. ProcessTypeOK' BY <1>1, <1>2, <1>3, <1>4, <1>5 DEF ProcessTypeOK
<1>7. TokenInv' BY <1>1 DEF Inv, TokenInv, AfterToken
<1>8. SaltInv' BY <1>1 DEF Inv, SaltInv, AfterSalt, AfterToken
<1>9. ColumnsInv' BY <1>1 DEF ColumnsInv, AfterMigrate, AfterSalt, AfterToken
<1>10. PricesInv'
  <2>1. published \in Nat
    BY RefreshAssumption DEF Inv, ProcessTypeOK, RefreshTypeOK, Documents
  <2>2. QED BY <1>1, <2>1 DEF Inv, PricesInv
<1>11. QED BY <1>6, <1>7, <1>8, <1>9, <1>10 DEF Inv

-----------------------------------------------------------------------------
(* What runs beside main *)

LEMMA ProbeType ==
    ASSUME ProbeTypeOK, Tick \/ TickFails \/ Round \/ LoopExits \/ \E m \in Models : Ages(m)
    PROVE  /\ ProbeTypeOK'
           /\ pc = "exited" => pc' = "exited"
           /\ shutdown' = shutdown
<1> USE DEF ProbeTypeOK
<1>0. Cardinality({}) = 0 BY FS_EmptySet
<1>1. CASE Tick BY <1>1 DEF Tick, WithoutRecent
<1>2. CASE TickFails BY <1>2 DEF TickFails
<1>3. CASE LoopExits BY <1>3 DEF LoopExits
<1>4. CASE \E m \in Models : Ages(m) BY <1>4 DEF Ages
<1>5. CASE NextModel
  <2>1. PICK m \in todo : current' = {m} /\ todo' = todo \ {m} BY <1>5 DEF NextModel
  <2>2. Cardinality(current') = 1 BY <2>1, FS_Singleton
  <2>3. current' # {} /\ current' \cap todo' = {} BY <2>1
  <2>4. QED BY <1>5, <2>1, <2>2, <2>3 DEF NextModel
<1>6. CASE RoundEnds BY <1>6 DEF RoundEnds
<1>7. CASE Resolved BY <1>7 DEF Resolved
<1>8. CASE Answered BY <1>8 DEF Answered
<1>9. CASE NotAnswered BY <1>0, <1>9 DEF NotAnswered, Skip
<1>10. CASE InsertFails BY <1>0, <1>10 DEF InsertFails, Skip
<1>11. CASE \E m \in Models : Insert(m) BY <1>0, <1>11 DEF Insert, Skip
<1>12. QED BY <1>1, <1>2, <1>3, <1>4, <1>5, <1>6, <1>7, <1>8, <1>9, <1>10, <1>11 DEF Round

LEMMA ProbingInv ==
    ASSUME Inv, Probing
    PROVE  Inv'
<1>1. /\ Tick \/ TickFails \/ Round \/ LoopExits \/ \E m \in Models : Ages(m)
      /\ UNCHANGED <<refreshVars, bootVars, ends>>
  BY DEF Probing, Sampling
<1>2. ProbeTypeOK BY DEF Inv, ProcessTypeOK
<1>3. ProbeTypeOK' /\ (pc = "exited" => pc' = "exited") /\ shutdown' = shutdown
  BY <1>1, <1>2, ProbeType
<1>4. RefreshTypeOK' /\ BootTypeOK'
  BY <1>1 DEF Inv, ProcessTypeOK, RefreshTypeOK, BootTypeOK
<1>5. ProcessTypeOK' BY <1>1, <1>3, <1>4 DEF Inv, ProcessTypeOK
<1>6. TokenInv' /\ SaltInv' /\ ColumnsInv' /\ PricesInv'
  BY <1>1 DEF Inv, TokenInv, SaltInv, ColumnsInv, PricesInv
<1>7. QED BY <1>5, <1>6 DEF Inv

\* The snapshot moves to a document that was published, and only forwards.
LEMMA RefreshType ==
    ASSUME RefreshTypeOK, PricesInv, phase' = phase, phase = "plant" => refresher # "replace",
           RefreshTick \/ Refresh \/ RefresherSignalled \/ Publish
    PROVE  /\ RefreshTypeOK' /\ PricesInv'
           /\ refresher \in {"off", "exited"} => refresher' = refresher
           /\ defaults' >= defaults
<1> USE DEF RefreshTypeOK, PricesInv, Documents
<1>0. /\ MaxDocument \in Nat /\ published \in Nat /\ defaults \in Nat /\ document \in Nat
      /\ defaults <= defaults
  BY RefreshAssumption
<1>1. CASE RefreshTick BY <1>0, <1>1 DEF RefreshTick
<1>2. CASE FetchFails BY <1>0, <1>2 DEF FetchFails
<1>3. CASE Fetched
  <2>1. document' = published /\ published # 0 /\ defaults <= published BY <1>3 DEF Fetched
  <2>2. QED BY <1>0, <1>3, <2>1 DEF Fetched
<1>4. CASE Replace
  <2>1. refresher = "replace" /\ document # 0 /\ defaults' = document /\ document' = 0
        /\ defaults <= document /\ phase # "plant" /\ published' = published
    BY <1>4 DEF Replace, ReplaceAll
  <2>2. document <= published /\ 0 <= published BY <1>0
  <2>3. RefreshTypeOK'
    BY <1>0, <1>4, <2>1 DEF Replace
  <2>4. PricesInv' BY <2>1, <2>2
  <2>5. QED BY <1>0, <1>4, <2>1, <2>3, <2>4 DEF Replace
<1>5. CASE ReplaceFails BY <1>0, <1>5 DEF ReplaceFails
<1>6. CASE RefresherSignalled BY <1>0, <1>6 DEF RefresherSignalled, RefresherExits
<1>7. CASE Publish BY <1>0, <1>7 DEF Publish
<1>8. QED BY <1>1, <1>2, <1>3, <1>4, <1>5, <1>6, <1>7 DEF Refresh

LEMMA RefreshingInv ==
    ASSUME Inv, Refreshing
    PROVE  Inv' /\ defaults' >= defaults
<1>1. /\ RefreshTick \/ Refresh \/ RefresherSignalled \/ Publish
      /\ UNCHANGED <<vars, bootVars, ends>>
  BY DEF Refreshing, Pricing
<1>2. RefreshTypeOK /\ PricesInv BY DEF Inv, ProcessTypeOK
<1>3. phase = "plant" => refresher # "replace" BY DEF Inv, ProcessTypeOK, WithRefresher
<1>4. /\ RefreshTypeOK' /\ PricesInv'
      /\ refresher \in {"off", "exited"} => refresher' = refresher
      /\ defaults' >= defaults
  BY <1>1, <1>2, <1>3, RefreshType
<1>5. ProbeTypeOK' /\ BootTypeOK' BY <1>1 DEF Inv, ProcessTypeOK, ProbeTypeOK, BootTypeOK
<1>6. ProcessTypeOK' BY <1>1, <1>4, <1>5 DEF Inv, ProcessTypeOK
<1>7. TokenInv' /\ SaltInv' /\ ColumnsInv' BY <1>1 DEF Inv, TokenInv, SaltInv, ColumnsInv
<1>8. QED BY <1>4, <1>6, <1>7 DEF Inv

LEMMA StoreKeyInv ==
    ASSUME Inv, ProviderKeyStored
    PROVE  Inv'
<1>1. /\ phase = "serving" /\ ciphers' = ciphers \cup {encKey}
      /\ UNCHANGED <<phase, altered, encKey, unseen, columns, salt, token, shown, lost, randoms>>
      /\ UNCHANGED <<vars, refreshVars, ends>>
  BY DEF ProviderKeyStored, StoreKey
<1>2. encKey = salt /\ salt # 0 /\ salt \in 0 .. MaxRandom
  BY <1>1 DEF Inv, SaltInv, AfterSalt, AfterToken, ProcessTypeOK, BootTypeOK
<1>3. salt \in 1 .. MaxRandom BY <1>2, BootAssumption
<1>4. BootTypeOK'
  <2>1. ciphers' \subseteq 1 .. MaxRandom
    BY <1>1, <1>2, <1>3 DEF Inv, ProcessTypeOK, BootTypeOK
  <2>2. QED BY <1>1, <2>1 DEF Inv, ProcessTypeOK, BootTypeOK
<1>5. ProbeTypeOK' /\ RefreshTypeOK' BY <1>1 DEF Inv, ProcessTypeOK, ProbeTypeOK, RefreshTypeOK
<1>6. ProcessTypeOK' BY <1>1, <1>4, <1>5 DEF Inv, ProcessTypeOK
<1>7. SaltInv' BY <1>1, <1>2 DEF Inv, SaltInv
<1>8. TokenInv' /\ ColumnsInv' /\ PricesInv' BY <1>1 DEF Inv, TokenInv, ColumnsInv, PricesInv
<1>9. QED BY <1>6, <1>7, <1>8 DEF Inv

LEMMA StutterInv ==
    ASSUME Inv, UNCHANGED allVars
    PROVE  Inv'
<1>1. ProbeTypeOK' /\ RefreshTypeOK' /\ BootTypeOK'
  BY DEF Inv, ProcessTypeOK, ProbeTypeOK, RefreshTypeOK, BootTypeOK
<1>2. ProcessTypeOK' BY <1>1 DEF Inv, ProcessTypeOK
<1>3. TokenInv' /\ SaltInv' /\ ColumnsInv' /\ PricesInv'
  BY DEF Inv, TokenInv, SaltInv, ColumnsInv, PricesInv
<1>4. QED BY <1>2, <1>3 DEF Inv

-----------------------------------------------------------------------------
(* Theorems *)

LEMMA Invariant == ProcessSpec => []Inv
<1>1. ProcessInit => Inv BY InitInv
<1>2. Inv /\ [ProcessNext]_allVars => Inv'
  BY BootingInv, SpawnProbeInv, CountDefaultsInv, PlantInv, ServingInv, EndInv,
     ProbingInv, RefreshingInv, StoreKeyInv, StutterInv DEF ProcessNext, Life
<1>3. QED BY <1>1, <1>2, PTL DEF ProcessSpec

\* The state of the process and of its data base keeps its types, and a loop
\* runs only in a process that has spawned it (main).
THEOREM ProcessTypeCorrect == ProcessSpec => []ProcessTypeOK
<1>1. Inv => ProcessTypeOK BY DEF Inv
<1>2. QED BY <1>1, Invariant, PTL

\* A printed token is the operator's token for good, and a process serves with
\* one that was printed or lost in a crash before it could be
\* (ensure_initialized), after any number of crashes.
THEOREM TokenAlwaysKnown == ProcessSpec => []TokenKnown
<1>1. Inv => TokenKnown
  <2> SUFFICES ASSUME Inv PROVE TokenKnown
    OBVIOUS
  <2>1. phase = "serving" => token # 0 /\ unseen = 0
    BY DEF Inv, TokenInv, AfterToken
  <2>2. QED BY <2>1 DEF Inv, TokenInv, TokenKnown
<1>2. QED BY <1>1, Invariant, PTL

\* What any process has encrypted, the one that serves can decrypt, and its
\* prices have all columns, wherever an earlier one has ended (run_migrations,
\* ensure_initialized).
THEOREM AlwaysServesWhole == ProcessSpec => []ServesWhole
<1>1. Inv => ServesWhole
  BY DEF Inv, SaltInv, ColumnsInv, AfterMigrate, AfterSalt, AfterToken, ServesWhole
<1>2. QED BY <1>1, Invariant, PTL

\* The default prices never go back to an older document or to none, for any
\* number of documents, restarts and failures (refresh_from_url).
THEOREM SnapshotNeverBack == ProcessSpec => SnapshotKept
<1>1. Inv /\ [ProcessNext]_allVars => [defaults' >= defaults]_allVars
  <2> SUFFICES ASSUME Inv, [ProcessNext]_allVars PROVE [defaults' >= defaults]_allVars
    OBVIOUS
  <2>1. defaults \in Nat
    BY RefreshAssumption DEF Inv, ProcessTypeOK, RefreshTypeOK, Documents
  <2>2. CASE Booting BY <2>1, <2>2 DEF Booting
  <2>3. CASE SpawnProbe BY <2>1, <2>3 DEF SpawnProbe
  <2>4. CASE CountDefaults BY <2>1, <2>4 DEF CountDefaults
  <2>5. CASE Plant
    <3>1. defaults = 0 /\ defaults' \in {1, defaults}
      BY <2>5 DEF Plant, ReplaceAll, Inv, PricesInv
    <3>2. QED BY <3>1
  <2>6. CASE Listen \/ ServersEnd \/ End BY <2>1, <2>6 DEF Listen, ServersEnd, End
  <2>7. CASE Probing BY <2>1, <2>7 DEF Probing, Sampling
  <2>8. CASE Refreshing BY <2>8, RefreshingInv
  <2>9. CASE ProviderKeyStored BY <2>1, <2>9 DEF ProviderKeyStored
  <2>10. CASE UNCHANGED allVars BY <2>10
  <2>11. QED BY <2>2, <2>3, <2>4, <2>5, <2>6, <2>7, <2>8, <2>9, <2>10 DEF ProcessNext, Life
<1>2. QED BY <1>1, Invariant, PTL DEF ProcessSpec, SnapshotKept

\* The probe loop is at a model that has a sample already.
Probed == current \subseteq sampled

\* What a step does to the model at hand and to the samples.
LEMMA ProbeSteps ==
    ASSUME Inv, Probed, [ProcessNext]_allVars
    PROVE  sampled' = sampled /\ (current' = current \/ current' \subseteq todo)
<1>1. CASE Booting BY <1>1 DEF Booting
<1>2. CASE SpawnProbe BY <1>2 DEF SpawnProbe
<1>3. CASE CountDefaults BY <1>3 DEF CountDefaults, SpawnRefresher
<1>4. CASE Plant BY <1>4 DEF Plant, SpawnRefresher
<1>5. CASE Listen \/ ServersEnd \/ End BY <1>5 DEF Listen, ServersEnd, End
<1>6. CASE Probing
  <2>1. ASSUME NEW m \in Models, Insert(m) PROVE sampled' = sampled /\ current' = {}
    <3>1. m \in sampled BY <2>1 DEF Insert, Probed
    <3>2. QED BY <2>1, <3>1 DEF Insert, Skip
  <2>2. CASE NextModel BY <2>2 DEF NextModel
  <2>3. CASE Round
    BY <2>1, <2>2, <2>3 DEF Round, RoundEnds, Resolved, Answered, NotAnswered, InsertFails, Skip
  <2>4. QED BY <1>6, <2>3 DEF Probing, Sampling, Tick, TickFails, LoopExits, Ages
<1>7. CASE Refreshing BY <1>7 DEF Refreshing, Pricing
<1>8. CASE ProviderKeyStored BY <1>8 DEF ProviderKeyStored
<1>9. CASE UNCHANGED allVars BY <1>9
<1>10. QED BY <1>1, <1>2, <1>3, <1>4, <1>5, <1>6, <1>7, <1>8, <1>9 DEF ProcessNext, Life

LEMMA ProbedAlways == ProcessSpec => []Probed
<1>1. ProcessInit => Probed BY DEF ProcessInit, Probed
<1>2. Inv /\ Probed /\ [ProcessNext]_allVars => Probed'
  <2> SUFFICES ASSUME Inv, Probed, [ProcessNext]_allVars PROVE Probed'
    OBVIOUS
  <2>1. todo \subseteq sampled BY DEF Inv, ProcessTypeOK, ProbeTypeOK
  <2>2. QED BY <2>1, ProbeSteps DEF Probed
<1>3. QED BY <1>1, <1>2, Invariant, PTL DEF ProcessSpec

\* No step gives a first sample to a model that has none (probe_once of
\* probe.rs on latency_models_without_recent of db/latency.rs).
NoFirstSample == [][sampled' = sampled]_allVars

\* The samples that a data base comes with are of all the models that will
\* ever be probed: for any models, providers, and starts of a process.  Run
\* sampled shows it of three models against what the documents say.
THEOREM NoModelSampledFirst == ProcessSpec => NoFirstSample
<1>1. Inv /\ Probed /\ [ProcessNext]_allVars => [sampled' = sampled]_allVars
  BY ProbeSteps
<1>2. QED BY <1>1, Invariant, ProbedAlways, PTL DEF ProcessSpec, NoFirstSample
=============================================================================
