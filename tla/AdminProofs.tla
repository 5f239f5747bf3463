---------------------------- MODULE AdminProofs ----------------------------
(***************************************************************************)
(* The administration, for any models, virtual models, handlers and tests: *)
(* types and members without an assumption; prices, routes and hand-set    *)
(* prices when there is one editor at a time.                              *)
(*                                                                         *)
(* And the callers' keys beside it, for any keys and callers: types, what  *)
(* the allow lists refer to, and that a check of a key answers by the rule *)
(* of some moment between its queries, with the two exceptions that        *)
(* AnsweredForCause names.                                                 *)
(***************************************************************************)
EXTENDS KeyProperties, TLAPS

USE DEF tables, handlerVars, vars

\* A list of a body is a short sequence of models.
LEMMA ListTypes ==
    ASSUME NEW n \in Nat, NEW s \in Lists(n)
    PROVE  s \in Seq(ModelIds) /\ Len(s) \in 0 .. n
<1>1. PICK k \in 0 .. n : s \in [1 .. k -> ModelIds]
    BY DEF Lists
<1>2. s \in Seq(ModelIds) /\ Len(s) = k
    BY <1>1
<1> QED BY <1>1, <1>2

LEMMA ConcatTypes ==
    ASSUME NEW S, NEW s \in Seq(S), NEW t \in Seq(S)
    PROVE  /\ s \o t \in Seq(S)
           /\ Len(s \o t) = Len(s) + Len(t)
           /\ \A i \in 1 .. Len(t) : (s \o t)[Len(s) + i] = t[i]
<1>1. s \o t \in Seq(S) /\ Len(s \o t) = Len(s) + Len(t)
    OBVIOUS
<1>2. Len(s) \in Nat /\ Len(t) \in Nat
    OBVIOUS
<1>3. ASSUME NEW i \in 1 .. Len(t) PROVE (s \o t)[Len(s) + i] = t[i]
    <2>1. Len(s) + i \in 1 .. Len(s) + Len(t) /\ Len(s) + i > Len(s)
        BY <1>2
    <2>2. (Len(s) + i) - Len(s) = i
        BY <1>2
    <2> QED BY <2>1, <2>2
<1> QED BY <1>1, <1>3

\* What upsert_vmodel asks for, in the order it asks.
LEMMA NamedTypes ==
    ASSUME NEW j \in SaveJob
    PROVE  /\ j.members \in Seq(ModelIds) /\ j.routes \in Seq(ModelIds)
           /\ Named(j) \in Seq(ModelIds)
           /\ Len(Named(j)) = Len(j.members) + Len(j.routes)
           /\ Len(Named(j)) \in 0 .. MaxMembers + MaxRoutes
           /\ \A i \in 1 .. Len(j.routes) : Named(j)[Len(j.members) + i] = j.routes[i]
<1>1. j.members \in Lists(MaxMembers) /\ j.routes \in Lists(MaxRoutes)
    BY DEF SaveJob
<1>2. MaxMembers \in Nat /\ MaxRoutes \in Nat
    BY AdminAssumption
<1>3. j.members \in Seq(ModelIds) /\ Len(j.members) \in 0 .. MaxMembers
    BY <1>1, <1>2, ListTypes
<1>4. j.routes \in Seq(ModelIds) /\ Len(j.routes) \in 0 .. MaxRoutes
    BY <1>1, <1>2, ListTypes
<1> DEFINE s == j.members
<1> DEFINE t == j.routes
<1>5. s \in Seq(ModelIds) /\ t \in Seq(ModelIds) /\ Named(j) = s \o t
    BY <1>3, <1>4 DEF Named
<1>6. Len(s) \in 0 .. MaxMembers /\ Len(t) \in 0 .. MaxRoutes
    BY <1>3, <1>4
<1> HIDE DEF s, t
<1>7. /\ s \o t \in Seq(ModelIds)
      /\ Len(s \o t) = Len(s) + Len(t)
      /\ \A i \in 1 .. Len(t) : (s \o t)[Len(s) + i] = t[i]
    BY <1>5, ConcatTypes
<1>8. Len(s) + Len(t) \in 0 .. MaxMembers + MaxRoutes
    BY <1>2, <1>6
<1> QED BY <1>5, <1>7, <1>8 DEF s, t

\* upsert_vmodel asks only while there is a model to ask for.
Asking ==
    \A e \in Editors :
        /\ at[e] \notin SavePlaces => asked[e] = 0
        /\ at[e] = "ask" => asked[e] < Len(Named(job[e]))

\* A handler that moves or returns leaves the types as they are.
LEMMA ReturnTypes ==
    ASSUME HandlersTypeOK, Asking, NEW e \in Editors, Return(e)
    PROVE  HandlersTypeOK' /\ Asking'
<1> USE DEF HandlersTypeOK, Return, Goto
<1>1. at' \in [Editors -> Places]
    BY DEF Places
<1>2. job' \in [Editors -> Job \cup {NoJob}]
    OBVIOUS
<1>3. at'[e] = "idle" /\ job'[e] = NoJob
    OBVIOUS
<1>4. \A d \in Editors : d # e => at'[d] = at[d] /\ job'[d] = job[d] /\ asked'[d] = asked[d]
    OBVIOUS
<1>5. \A d \in Editors : AtWork(d)'
    BY <1>3, <1>4 DEF AtWork
<1>6. asked' \in [Editors -> 0 .. MaxMembers + MaxRoutes]
    BY AdminAssumption
<1>7. Asking'
    <2>1. asked'[e] = 0
        BY AdminAssumption
    <2> QED BY <1>3, <1>4, <2>1 DEF Asking, Named
<1> QED BY <1>1, <1>2, <1>5, <1>6, <1>7

LEMMA ContinueTypes ==
    ASSUME HandlersTypeOK, Asking, NEW e \in Editors, NEW place \in Places, Continue(e, place),
           at[e] \notin SavePlaces,
           \/ place \in EditPlaces /\ job[e] \in EditJob
           \/ place \in RemovePlaces /\ job[e] \in RemoveJob
           \/ place \in PricePlaces /\ job[e] \in PriceJob
    PROVE  HandlersTypeOK' /\ Asking'
<1> USE DEF HandlersTypeOK, Continue, Goto
<1>1. at' \in [Editors -> Places]
    OBVIOUS
<1>2. at'[e] = place /\ \A d \in Editors : d # e => at'[d] = at[d]
    OBVIOUS
<1>3. \A d \in Editors : AtWork(d)'
    BY <1>2 DEF AtWork
<1>4. Asking'
    BY <1>2 DEF Asking, Named, EditPlaces, RemovePlaces, PricePlaces, SavePlaces
<1> QED BY <1>1, <1>3, <1>4

LEMMA TableTypes ==
    ASSUME TablesTypeOK
    PROVE  /\ \A m \in ModelIds, row \in ModelRow : ModelUpsert(m, row) => TablesTypeOK'
           /\ \A m \in ModelIds, price \in PriceRow : PriceUpsert(m, price) => TablesTypeOK'
           /\ \A m \in ModelIds : ModelDeleteCascade(m) => TablesTypeOK'
           /\ \A v \in VNames, row \in VModelRow : VModelUpsert(v, row) => TablesTypeOK'
           /\ \A v \in VNames : VModelDelete(v) => TablesTypeOK'
BY DEF TablesTypeOK, ModelUpsert, PriceUpsert, ModelDeleteCascade, VModelUpsert, VModelDelete

LEMMA AcceptTypes ==
    ASSUME AdminTypeOK, Asking, NEW e \in Editors, NEW j \in Job, Accept(e, j)
    PROVE  HandlersTypeOK' /\ Asking'
<1> USE DEF AdminTypeOK, HandlersTypeOK, Accept, Goto
<1>0. asked[e] = 0
    BY DEF Asking, SavePlaces
<1>1. /\ at' = [at EXCEPT ![e] = FirstStatement(j)]
      /\ job' = [job EXCEPT ![e] = j] /\ UNCHANGED <<asked, pending>>
    OBVIOUS
<1>2. \A d \in Editors : d # e => at'[d] = at[d] /\ job'[d] = job[d]
    BY <1>1
<1>3. job'[e] = j /\ at'[e] = FirstStatement(j)
    BY <1>1
<1>4. \/ FirstStatement(j) \in EditPlaces /\ j \in EditJob
      \/ FirstStatement(j) \in RemovePlaces /\ j \in RemoveJob
      \/ FirstStatement(j) \in PricePlaces /\ j \in PriceJob
      \/ FirstStatement(j) \in SavePlaces /\ j \in SaveJob
    BY DEF Job, EditJob, RemoveJob, PriceJob, SaveJob, FirstStatement,
           EditPlaces, RemovePlaces, PricePlaces, SavePlaces
<1>5. at' \in [Editors -> Places] /\ job' \in [Editors -> Job \cup {NoJob}]
    BY <1>1, <1>4 DEF Places
<1>6. \A d \in Editors : AtWork(d)'
    BY <1>2, <1>3, <1>4 DEF AtWork
<1>7. ASSUME at'[e] = "ask" PROVE asked[e] < Len(Named(j))
    <2>1. j \in SaveJob /\ Named(j) # <<>>
        BY <1>3, <1>7 DEF Job, EditJob, RemoveJob, PriceJob, SaveJob, FirstStatement, Named
    <2>2. Named(j) \in Seq(ModelIds)
        BY <2>1, NamedTypes
    <2> HIDE DEF Named
    <2>3. Len(Named(j)) \in Nat /\ Len(Named(j)) # 0
        BY <2>1, <2>2
    <2> QED BY <1>0, <2>3
<1>8. Asking'
    BY <1>0, <1>1, <1>2, <1>3, <1>7 DEF Asking, Named
<1> QED BY <1>1, <1>5, <1>6, <1>8

\* The handler is where its job is, so a step knows what it works on.
LEMMA EditTypes ==
    ASSUME AdminTypeOK, Asking, NEW e \in Editors, Edit(e)
    PROVE  AdminTypeOK' /\ Asking'
<1> USE DEF AdminTypeOK
<1>0. AtWork(e) /\ TablesTypeOK /\ HandlersTypeOK
    BY DEF HandlersTypeOK
<1>1. CASE KeepKey(e)
    <2>1. job[e] \in EditJob /\ UNCHANGED <<tables, asked, pending>> /\ at[e] = "keep"
        BY <1>0, <1>1 DEF KeepKey, AtWork, EditPlaces, RemovePlaces, PricePlaces, SavePlaces
    <2> DEFINE key == IF ModelExists(job[e].id) THEN models[job[e].id].key ELSE NoKey
    <2>2. key \in ApiKeys \cup {NoKey}
        BY <1>0, <2>1 DEF TablesTypeOK, EditJob, ModelRow, ModelExists
    <2>3. job' = [job EXCEPT ![e].row.key = key] /\ at' = [at EXCEPT ![e] = "write"]
        BY <1>1 DEF KeepKey, Goto
    <2> HIDE DEF key
    <2>4. job'[e] = [job[e] EXCEPT !.row.key = key] /\ \A d \in Editors : d # e => job'[d] = job[d]
        BY <2>3 DEF HandlersTypeOK
    <2>5. job'[e] \in EditJob
        BY <2>1, <2>2, <2>4 DEF EditJob, ModelRow
    <2>6. at'[e] = "write" /\ \A d \in Editors : d # e => at'[d] = at[d]
        BY <2>3 DEF HandlersTypeOK
    <2>7. at' \in [Editors -> Places] /\ job' \in [Editors -> Job \cup {NoJob}]
        BY <2>3, <2>4, <2>5 DEF HandlersTypeOK, Places, EditPlaces, Job
    <2>8. \A d \in Editors : AtWork(d)'
        BY <2>4, <2>5, <2>6 DEF HandlersTypeOK, AtWork, EditPlaces
    <2>9. Asking'
        BY <2>1, <2>4, <2>6 DEF Asking, Named, SavePlaces
    <2> QED BY <1>0, <2>1, <2>7, <2>8, <2>9 DEF HandlersTypeOK, TablesTypeOK
<1>2. CASE WriteModel(e)
    <2>1. job[e] \in EditJob /\ at[e] = "write"
        BY <1>0, <1>2 DEF WriteModel, AtWork, EditPlaces, RemovePlaces, PricePlaces, SavePlaces
    <2>2. TablesTypeOK'
        BY <1>0, <1>2, <2>1, TableTypes DEF WriteModel, EditJob
    <2>3. Continue(e, "priced") \/ Continue(e, "look")
        BY <1>2 DEF WriteModel
    <2>4. HandlersTypeOK' /\ Asking'
        BY <1>0, <2>1, <2>3, ContinueTypes DEF EditPlaces, SavePlaces, Places
    <2> QED BY <2>2, <2>4
<1>3. CASE LookForPrice(e)
    <2>1. /\ job[e] \in EditJob /\ at[e] = "look"
          /\ (Continue(e, "match") \/ Return(e))
          /\ UNCHANGED tables
        BY <1>0, <1>3 DEF LookForPrice, AtWork, EditPlaces, RemovePlaces, PricePlaces, SavePlaces
    <2>2. HandlersTypeOK' /\ Asking'
        BY <1>0, <2>1, ContinueTypes, ReturnTypes DEF EditPlaces, SavePlaces, Places
    <2> QED BY <1>0, <2>1, <2>2 DEF TablesTypeOK
<1>4. CASE MatchDefault(e)
    <2>1. /\ job[e] \in EditJob /\ at[e] = "match"
          /\ (Continue(e, "default") \/ Return(e))
          /\ UNCHANGED tables
        BY <1>0, <1>4 DEF MatchDefault, AtWork, EditPlaces, RemovePlaces, PricePlaces, SavePlaces
    <2>2. HandlersTypeOK' /\ Asking'
        BY <1>0, <2>1, ContinueTypes, ReturnTypes DEF EditPlaces, SavePlaces, Places
    <2> QED BY <1>0, <2>1, <2>2 DEF TablesTypeOK
<1>5. CASE WriteDefault(e)
    <2>1. job[e] \in EditJob /\ Return(e) /\ PriceUpsert(job[e].id, "default")
        BY <1>0, <1>5 DEF WriteDefault, AtWork, EditPlaces, RemovePlaces, PricePlaces, SavePlaces
    <2>2. TablesTypeOK'
        BY <1>0, <2>1, TableTypes DEF EditJob, PriceRow
    <2> QED BY <1>0, <2>1, <2>2, ReturnTypes
<1>6. CASE WritePrice(e)
    <2>1. job[e] \in EditJob \cup PriceJob /\ Return(e) /\ PriceUpsert(job[e].id, "hand")
        BY <1>0, <1>6 DEF WritePrice, AtWork, EditPlaces, RemovePlaces, PricePlaces, SavePlaces
    <2>2. TablesTypeOK'
        BY <1>0, <2>1, TableTypes DEF EditJob, PriceJob, PriceRow
    <2> QED BY <1>0, <2>1, <2>2, ReturnTypes
<1> QED BY <1>1, <1>2, <1>3, <1>4, <1>5, <1>6 DEF Edit

LEMMA RemoveTypes ==
    ASSUME AdminTypeOK, Asking, NEW e \in Editors, Remove(e)
    PROVE  AdminTypeOK' /\ Asking'
<1> USE DEF AdminTypeOK
<1>0. AtWork(e) /\ TablesTypeOK /\ HandlersTypeOK
    BY DEF HandlersTypeOK
<1>1. job[e] \in RemoveJob /\ at[e] \notin SavePlaces
    BY <1>0 DEF Remove, MembersFree, RoutesFree, DeleteModel, AtWork,
           EditPlaces, RemovePlaces, PricePlaces, SavePlaces
<1>2. HandlersTypeOK' /\ Asking'
    <2>1. Continue(e, "routes") \/ Continue(e, "delete") \/ Return(e)
        BY DEF Remove, MembersFree, RoutesFree, DeleteModel
    <2> QED BY <1>0, <1>1, <2>1, ContinueTypes, ReturnTypes DEF RemovePlaces, Places
<1>3. TablesTypeOK'
    <2>1. UNCHANGED tables \/ ModelDeleteCascade(job[e].id)
        BY DEF Remove, MembersFree, RoutesFree, DeleteModel
    <2> QED BY <1>0, <1>1, <2>1, TableTypes DEF RemoveJob, TablesTypeOK
<1> QED BY <1>2, <1>3

LEMMA PriceTypes ==
    ASSUME AdminTypeOK, Asking, NEW e \in Editors, ModelKnown(e)
    PROVE  AdminTypeOK' /\ Asking'
<1> USE DEF AdminTypeOK
<1>0. AtWork(e) /\ TablesTypeOK /\ HandlersTypeOK
    BY DEF HandlersTypeOK
<1>1. job[e] \in PriceJob /\ at[e] \notin SavePlaces
    BY <1>0 DEF ModelKnown, AtWork, EditPlaces, RemovePlaces, PricePlaces, SavePlaces
<1>2. (Continue(e, "priced") \/ Return(e)) /\ UNCHANGED tables
    BY DEF ModelKnown
<1>3. HandlersTypeOK' /\ Asking'
    BY <1>0, <1>1, <1>2, ContinueTypes, ReturnTypes DEF PricePlaces, Places
<1> QED BY <1>0, <1>2, <1>3 DEF TablesTypeOK

LEMMA SaveTypes ==
    ASSUME AdminTypeOK, Asking, NEW e \in Editors, Save(e)
    PROVE  AdminTypeOK' /\ Asking'
<1> USE DEF AdminTypeOK
<1>0. AtWork(e) /\ TablesTypeOK /\ HandlersTypeOK
    BY DEF HandlersTypeOK
<1>1. CASE AskNext(e)
    <2>1. job[e] \in SaveJob /\ at[e] = "ask" /\ UNCHANGED tables
        BY <1>0, <1>1 DEF AskNext, AtWork, EditPlaces, RemovePlaces, PricePlaces, SavePlaces
    <2>2. CASE Return(e)
        BY <1>0, <2>1, <2>2, ReturnTypes DEF TablesTypeOK
    <2>3. CASE ~Return(e)
        <3> DEFINE n == Len(Named(job[e]))
        <3> DEFINE next == IF asked[e] + 1 = n THEN "save" ELSE "ask"
        <3>1. asked' = [asked EXCEPT ![e] = @ + 1] /\ at' = [at EXCEPT ![e] = next]
              /\ UNCHANGED <<job, pending>>
            BY <1>1, <2>3 DEF AskNext, Goto
        <3>2. n \in 0 .. MaxMembers + MaxRoutes /\ asked[e] < n /\ asked[e] \in Nat
            <4>1. asked[e] < n
                BY <2>1 DEF Asking
            <4>2. n \in 0 .. MaxMembers + MaxRoutes
                BY <2>1, NamedTypes
            <4>3. asked[e] \in Nat
                BY AdminAssumption DEF HandlersTypeOK
            <4> QED BY <4>1, <4>2, <4>3
        <3> HIDE DEF n
        <3>3. asked[e] + 1 \in 0 .. MaxMembers + MaxRoutes
              /\ (asked[e] + 1 # n => asked[e] + 1 < n)
            BY <3>2, AdminAssumption
        <3>4. next \in SavePlaces /\ (next = "ask" => asked[e] + 1 < n)
            BY <3>3 DEF SavePlaces
        <3> HIDE DEF next
        <3>5. at'[e] = next /\ asked'[e] = asked[e] + 1
              /\ \A d \in Editors : d # e => at'[d] = at[d] /\ asked'[d] = asked[d]
            BY <3>1 DEF HandlersTypeOK
        <3>6. at' \in [Editors -> Places] /\ asked' \in [Editors -> 0 .. MaxMembers + MaxRoutes]
            BY <3>1, <3>3, <3>4 DEF HandlersTypeOK, Places
        <3>7. \A d \in Editors : AtWork(d)'
            BY <2>1, <3>1, <3>4, <3>5 DEF HandlersTypeOK, AtWork
        <3>8. Asking'
            BY <3>1, <3>4, <3>5 DEF Asking, Named, n
        <3> QED BY <1>0, <2>1, <3>1, <3>6, <3>7, <3>8 DEF HandlersTypeOK, TablesTypeOK
    <2> QED BY <2>2, <2>3
<1>2. CASE SaveVModel(e)
    <2>1. job[e] \in SaveJob /\ Return(e)
        BY <1>0, <1>2 DEF SaveVModel, AtWork, EditPlaces, RemovePlaces, PricePlaces, SavePlaces
    <2>2. job[e].name \in VNames
          /\ [members |-> job[e].members, routes |-> job[e].routes] \in VModelRow
        BY <2>1, NamedTypes DEF SaveJob, VModelRow
    <2>3. TablesTypeOK'
        BY <1>0, <1>2, <2>2, TableTypes DEF SaveVModel
    <2> QED BY <1>0, <2>1, <2>3, ReturnTypes
<1>3. CASE \E v \in VNames : RemoveVModel(e, v)
    <2>1. UNCHANGED handlerVars /\ TablesTypeOK'
        BY <1>0, <1>3, TableTypes DEF RemoveVModel
    <2> QED BY <1>0, <2>1 DEF HandlersTypeOK, AtWork, Asking, Named
<1> QED BY <1>1, <1>2, <1>3 DEF Save

LEMMA TestTypes ==
    ASSUME AdminTypeOK, Asking, NEW t \in Testers, Test(t)
    PROVE  AdminTypeOK' /\ Asking'
<1> USE DEF AdminTypeOK
<1>0. TablesTypeOK /\ HandlersTypeOK
    OBVIOUS
<1>1. UNCHANGED <<at, job, asked>>
    BY DEF Test, ReadRows, DropTest, ProbeChangesNothing, ProbeCorrects
<1> DEFINE Rows == [Testers -> [ModelIds -> ModelRow \cup {NoRow}]]
<1>2. pending' \in Rows
    <2>1. ASSUME NEW tested \in SUBSET ModelIds, ReadRows(t, tested) PROVE pending' \in Rows
        BY <1>0, <2>1 DEF ReadRows, HandlersTypeOK, TablesTypeOK
    <2>2. ASSUME NEW m \in ModelIds, Probed(t, m) PROVE pending' \in Rows
        BY <1>0, <2>2 DEF Probed, HandlersTypeOK
    <2>3. CASE DropTest(t)
        BY <1>0, <2>3 DEF DropTest, HandlersTypeOK, NothingPending
    <2> QED BY <2>1, <2>2, <2>3 DEF Test, ProbeChangesNothing, ProbeCorrects
<1>3. TablesTypeOK'
    <2>1. ASSUME NEW m \in ModelIds, NEW address \in Addresses, NEW limit \in Limits \cup {NoLimit},
                 ProbeCorrects(t, m, address, limit)
          PROVE  TablesTypeOK'
        <3> DEFINE old == pending[t][m]
        <3> DEFINE row == [address |-> address, key |-> old.key,
                           limit |-> IF limit = NoLimit THEN old.limit ELSE limit]
        <3>1. old \in ModelRow /\ ModelUpsert(m, row)
            BY <1>0, <2>1 DEF ProbeCorrects, HandlersTypeOK
        <3>2. row \in ModelRow
            BY <3>1 DEF ModelRow
        <3> HIDE DEF row
        <3> QED BY <1>0, <3>1, <3>2, TableTypes
    <2>2. UNCHANGED tables
          \/ \E m \in ModelIds, address \in Addresses, limit \in Limits \cup {NoLimit} :
                ProbeCorrects(t, m, address, limit)
        BY DEF Test, ReadRows, DropTest, ProbeChangesNothing
    <2> QED BY <1>0, <2>1, <2>2 DEF TablesTypeOK
<1> QED BY <1>0, <1>1, <1>2, <1>3 DEF HandlersTypeOK, AtWork, Asking, Named

-----------------------------------------------------------------------------
Types == AdminTypeOK /\ Asking

LEMMA InitTypes == ASSUME Init PROVE Types
<1>1. TablesTypeOK
    BY DEF Init, EmptyTables, TablesTypeOK
<1>2. HandlersTypeOK
    BY AdminAssumption DEF Init, HandlersTypeOK, AtWork, NothingPending, Places
<1>3. Asking
    BY DEF Init, Asking
<1> QED BY <1>1, <1>2, <1>3 DEF Types, AdminTypeOK

LEMMA StepTypes == ASSUME Types, [Next]_vars PROVE Types'
<1> USE DEF Types
<1>1. CASE UNCHANGED vars
    BY <1>1 DEF AdminTypeOK, TablesTypeOK, HandlersTypeOK, AtWork, Asking, Named
<1>2. ASSUME NEW e \in Editors, Handler(e) PROVE Types'
    <2>1. CASE \E j \in Job : Accept(e, j)
        <3>1. HandlersTypeOK' /\ Asking'
            BY <2>1, AcceptTypes
        <3>2. UNCHANGED tables
            BY <2>1 DEF Accept
        <3> QED BY <3>1, <3>2 DEF AdminTypeOK, TablesTypeOK
    <2>2. CASE Abandon(e)
        <3>1. HandlersTypeOK' /\ Asking'
            BY <2>2, ReturnTypes DEF AdminTypeOK, Abandon
        <3> QED BY <2>2, <3>1 DEF Abandon, AdminTypeOK, TablesTypeOK
    <2> QED BY <1>2, <2>1, <2>2, EditTypes, RemoveTypes, PriceTypes, SaveTypes DEF Handler
<1>3. ASSUME NEW t \in Testers, Test(t) PROVE Types'
    BY <1>3, TestTypes
<1> QED BY <1>1, <1>2, <1>3 DEF Next

\* Every table and every handler keeps its type: what is stored is a row,
\* and a handler is at a statement of the job it was given (upsert_from_body,
\* delete_model, update_prices, upsert_vmodel, probe_one).
THEOREM AdminTypeCorrect == Spec => []AdminTypeOK
<1>1. Init => Types
    BY InitTypes
<1>2. Types /\ [Next]_vars => Types'
    BY StepTypes
<1>3. Types => AdminTypeOK
    BY DEF Types
<1> QED BY <1>1, <1>2, <1>3, PTL DEF Spec

-----------------------------------------------------------------------------
\* What a step may do to models and virtual_models, with the types of the
\* rows it writes.
TableStep ==
    \/ \E m \in ModelIds, row \in ModelRow : ModelUpsert(m, row)
    \/ \E m \in ModelIds : ModelDeleteCascade(m)
    \/ \E v \in VNames, row \in VModelRow : VModelUpsert(v, row)
    \/ \E v \in VNames : VModelDelete(v)
    \/ UNCHANGED <<models, vmodels>>

LEMMA HandlerTableStep ==
    ASSUME Types, NEW e \in Editors, Handler(e)
    PROVE  TableStep
<1> USE DEF Types, AdminTypeOK
<1>0. AtWork(e)
    BY DEF HandlersTypeOK
<1>1. CASE WriteModel(e)
    <2>1. job[e] \in EditJob
        BY <1>0, <1>1 DEF WriteModel, AtWork, EditPlaces, RemovePlaces, PricePlaces, SavePlaces
    <2> QED BY <1>1, <2>1 DEF WriteModel, EditJob, TableStep
<1>2. CASE DeleteModel(e)
    <2>1. job[e] \in RemoveJob
        BY <1>0, <1>2 DEF DeleteModel, AtWork, EditPlaces, RemovePlaces, PricePlaces, SavePlaces
    <2> QED BY <1>2, <2>1 DEF DeleteModel, RemoveJob, TableStep
<1>3. CASE SaveVModel(e)
    <2>1. job[e] \in SaveJob
        BY <1>0, <1>3 DEF SaveVModel, AtWork, EditPlaces, RemovePlaces, PricePlaces, SavePlaces
    <2>2. job[e].name \in VNames
          /\ [members |-> job[e].members, routes |-> job[e].routes] \in VModelRow
        BY <2>1, NamedTypes DEF SaveJob, VModelRow
    <2> QED BY <1>3, <2>2 DEF SaveVModel, TableStep
<1>4. CASE \E v \in VNames : RemoveVModel(e, v)
    BY <1>4 DEF RemoveVModel, TableStep
<1>5. CASE ~(WriteModel(e) \/ DeleteModel(e) \/ SaveVModel(e)
             \/ \E v \in VNames : RemoveVModel(e, v))
    BY <1>5 DEF Handler, Accept, Abandon, Edit, Remove, Save, ModelKnown, KeepKey, LookForPrice,
        MatchDefault, WriteDefault, WritePrice, MembersFree, RoutesFree, AskNext, PriceUpsert,
        TableStep
<1> QED BY <1>1, <1>2, <1>3, <1>4, <1>5

LEMMA TestTableStep ==
    ASSUME Types, NEW t \in Testers, Test(t)
    PROVE  \/ \E m \in ModelIds, row \in ModelRow : ModelUpsert(m, row)
           \/ UNCHANGED tables
<1> USE DEF Types, AdminTypeOK
<1>1. ASSUME NEW m \in ModelIds, NEW address \in Addresses, NEW limit \in Limits \cup {NoLimit},
             ProbeCorrects(t, m, address, limit)
      PROVE  \E row \in ModelRow : ModelUpsert(m, row)
    <2> DEFINE old == pending[t][m]
    <2> DEFINE row == [address |-> address, key |-> old.key,
                       limit |-> IF limit = NoLimit THEN old.limit ELSE limit]
    <2>1. old \in ModelRow /\ ModelUpsert(m, row)
        BY <1>1 DEF ProbeCorrects, HandlersTypeOK
    <2>2. row \in ModelRow
        BY <2>1 DEF ModelRow
    <2> HIDE DEF row
    <2> QED BY <2>1, <2>2
<1> QED BY <1>1 DEF Test, ReadRows, DropTest, ProbeChangesNothing

LEMMA NextTableStep == ASSUME Types, [Next]_vars PROVE TableStep
<1>1. CASE UNCHANGED vars
    BY <1>1 DEF TableStep
<1>2. CASE \E t \in Testers : Test(t)
    BY <1>2, TestTableStep DEF TableStep
<1> QED BY <1>1, <1>2, HandlerTableStep DEF Next

LEMMA StepMembers == ASSUME Types, MembersExist, [Next]_vars PROVE MembersExist'
<1> USE DEF MembersExist, MemberOf, ModelExists
<1>0. NoRow \notin ModelRow /\ TablesTypeOK
    BY RegistryAssumption DEF Types, AdminTypeOK
<1>1. ASSUME NEW m \in ModelIds, NEW row \in ModelRow, ModelUpsert(m, row) PROVE MembersExist'
    BY <1>0, <1>1 DEF ModelUpsert, TablesTypeOK
<1>2. ASSUME NEW m \in ModelIds, ModelDeleteCascade(m) PROVE MembersExist'
    BY <1>0, <1>2 DEF ModelDeleteCascade, TablesTypeOK
<1>3. ASSUME NEW v \in VNames, NEW row \in VModelRow, VModelUpsert(v, row) PROVE MembersExist'
    BY <1>0, <1>3 DEF VModelUpsert, TablesTypeOK
<1>4. ASSUME NEW v \in VNames, VModelDelete(v) PROVE MembersExist'
    BY <1>0, <1>4 DEF VModelDelete, TablesTypeOK
<1>5. CASE UNCHANGED <<models, vmodels>>
    BY <1>5
<1> QED BY <1>1, <1>2, <1>3, <1>4, <1>5, NextTableStep DEF TableStep

\* No interleaving of handlers and tests leaves a virtual model with a
\* member that is gone: the two transactions that could are each checked
\* against what the other has stored (vmodel_upsert, model_delete_cascade).
THEOREM MembersExistForAll == Spec => []MembersExist
<1>1. Init => Types /\ MembersExist
    BY InitTypes DEF Init, EmptyTables, MembersExist, MemberOf
<1>2. Types /\ MembersExist /\ [Next]_vars => Types' /\ MembersExist'
    BY StepTypes, StepMembers
<1> QED BY <1>1, <1>2, PTL DEF Spec

-----------------------------------------------------------------------------
\* What a handler has found out, and no test takes back.
Settled(e) ==
    /\ at[e] \in {"priced", "look", "match", "default"} => ModelExists(job[e].id)
    /\ at[e] \in {"match", "default"} => prices[job[e].id] = NoRow
    /\ at[e] = "delete" => \A v \in VNames : ~RoutedBy(job[e].id, v)
    /\ at[e] \in SavePlaces => \A i \in 1 .. asked[e] : ModelExists(Named(job[e])[i])
    /\ at[e] = "save" => asked[e] = Len(Named(job[e]))

Linked == NoOrphanPrice /\ RoutesExist

Orderly == Types /\ (\A e \in Editors : Settled(e)) /\ Linked

LEMMA UpsertKeeps ==
    ASSUME Types, Linked, NEW m \in ModelIds, NEW row \in ModelRow, ModelUpsert(m, row)
    PROVE  /\ Linked'
           /\ models'[m] # NoRow
           /\ \A n \in ModelIds : models[n] # NoRow => models'[n] # NoRow
<1>1. NoRow \notin ModelRow /\ TablesTypeOK
    BY RegistryAssumption DEF Types, AdminTypeOK
<1>2. models'[m] = row /\ \A n \in ModelIds : n # m => models'[n] = models[n]
    BY <1>1 DEF ModelUpsert, TablesTypeOK
<1>3. models'[m] # NoRow /\ \A n \in ModelIds : models[n] # NoRow => models'[n] # NoRow
    BY <1>1, <1>2
<1> QED BY <1>1, <1>2, <1>3
        DEF ModelUpsert, Linked, NoOrphanPrice, RoutesExist, RoutedBy, ModelExists

LEMMA PriceKeeps ==
    ASSUME Types, Linked, NEW m \in ModelIds, ModelExists(m), NEW price, PriceUpsert(m, price)
    PROVE  Linked'
<1>1. \A n \in ModelIds : n # m => prices'[n] = prices[n]
    BY DEF Types, AdminTypeOK, TablesTypeOK, PriceUpsert
<1> QED BY <1>1 DEF PriceUpsert, Linked, NoOrphanPrice, RoutesExist, RoutedBy, ModelExists

\* What a step leaves when it changes no table.
LEMMA SameTables ==
    ASSUME Linked, UNCHANGED tables
    PROVE  /\ Linked'
           /\ \A m \in ModelIds : ModelExists(m)' = ModelExists(m)
BY DEF Linked, NoOrphanPrice, RoutesExist, RoutedBy, ModelExists

\* A handler that has returned has nothing left to rely on.
LEMMA ReturnSettled ==
    ASSUME Types, NEW e \in Editors, Return(e)
    PROVE  Settled(e)'
<1>1. at'[e] = "idle"
    BY DEF Types, AdminTypeOK, HandlersTypeOK, Return, Goto
<1> QED BY <1>1 DEF Settled, SavePlaces

LEMMA ContinueAt ==
    ASSUME Types, NEW e \in Editors, NEW place, Continue(e, place)
    PROVE  at'[e] = place /\ job' = job /\ asked' = asked
BY DEF Types, AdminTypeOK, HandlersTypeOK, Continue, Goto

LEMMA AcceptSettled ==
    ASSUME Types, Linked, NEW e \in Editors, NEW j \in Job, Accept(e, j)
    PROVE  Settled(e)' /\ Linked'
<1>1. asked[e] = 0
    BY DEF Types, Asking, Accept, SavePlaces
<1>2. at'[e] = FirstStatement(j) /\ job'[e] = j /\ asked'[e] = 0
    BY <1>1 DEF Types, AdminTypeOK, HandlersTypeOK, Accept, Goto
<1>3. FirstStatement(j) \in {"keep", "write", "members", "exists", "ask", "save"}
    BY DEF FirstStatement, Job, EditJob, RemoveJob, PriceJob, SaveJob
<1>4. FirstStatement(j) = "save" => Named(j) = <<>>
    BY DEF FirstStatement, Job, EditJob, RemoveJob, PriceJob, SaveJob, Named
<1>5. \A i \in 1 .. asked'[e] : FALSE
    BY <1>2
<1>6. at'[e] = "save" => Len(Named(job[e]))' = 0
    <2>1. Named(job[e])' = Named(j)
        BY <1>2 DEF Named
    <2>2. Len(<<>>) = 0
        OBVIOUS
    <2> QED BY <1>2, <1>4, <2>1, <2>2
<1>8. Settled(e)'
    BY <1>2, <1>3, <1>5, <1>6 DEF Settled
<1>7. Linked'
    BY SameTables DEF Accept
<1> QED BY <1>7, <1>8

LEMMA EditSettled ==
    ASSUME Types, Linked, NEW e \in Editors, Settled(e), Edit(e)
    PROVE  Settled(e)' /\ Linked'
<1> USE DEF Types, AdminTypeOK
<1>0. AtWork(e)
    BY DEF HandlersTypeOK
<1>1. CASE KeepKey(e)
    <2>1. at'[e] = "write" /\ UNCHANGED tables
        BY <1>1 DEF KeepKey, HandlersTypeOK, Goto
    <2> QED BY <2>1, SameTables DEF Settled, SavePlaces
<1>2. CASE WriteModel(e)
    <2>1. job[e] \in EditJob
        BY <1>0, <1>2 DEF WriteModel, AtWork, EditPlaces, RemovePlaces, PricePlaces, SavePlaces
    <2>2. job[e].id \in ModelIds /\ job[e].row \in ModelRow /\ ModelUpsert(job[e].id, job[e].row)
        BY <1>2, <2>1 DEF WriteModel, EditJob
    <2>3. at'[e] \in {"priced", "look"} /\ job' = job
        BY <1>2, ContinueAt DEF WriteModel
    <2>4. Linked' /\ models'[job[e].id] # NoRow
        BY <2>2, UpsertKeeps
    <2> QED BY <2>3, <2>4 DEF Settled, SavePlaces, ModelExists
<1>3. CASE LookForPrice(e) \/ MatchDefault(e)
    <2>1. job[e] \in EditJob /\ UNCHANGED tables
        BY <1>0, <1>3 DEF LookForPrice, MatchDefault, AtWork, EditPlaces, RemovePlaces, PricePlaces, SavePlaces
    <2>2. ModelExists(job[e].id)
        BY <1>3 DEF LookForPrice, MatchDefault, Settled
    <2>3. CASE Return(e)
        BY <2>1, <2>3, ReturnSettled, SameTables
    <2>4. CASE ~Return(e)
        <3>1. at'[e] \in {"match", "default"} /\ job' = job
            BY <1>3, <2>4, ContinueAt DEF LookForPrice, MatchDefault
        <3>2. prices[job[e].id] = NoRow
            BY <1>3, <2>4 DEF LookForPrice, MatchDefault, Settled
        <3> QED BY <2>1, <2>2, <3>1, <3>2, SameTables DEF Settled, SavePlaces, ModelExists
    <2> QED BY <2>3, <2>4
<1>4. CASE WriteDefault(e) \/ WritePrice(e)
    <2>1. job[e] \in EditJob \cup PriceJob /\ Return(e)
        BY <1>0, <1>4 DEF WriteDefault, WritePrice, AtWork, EditPlaces, RemovePlaces, PricePlaces, SavePlaces
    <2>2. ModelExists(job[e].id) /\ job[e].id \in ModelIds
        BY <1>4, <2>1 DEF WriteDefault, WritePrice, Settled, EditJob, PriceJob
    <2>3. Linked'
        BY <1>4, <2>2, PriceKeeps DEF WriteDefault, WritePrice
    <2> QED BY <2>1, <2>3, ReturnSettled
<1> QED BY <1>1, <1>2, <1>3, <1>4 DEF Edit

LEMMA RemoveSettled ==
    ASSUME Types, Linked, NEW e \in Editors, Settled(e), Remove(e)
    PROVE  Settled(e)' /\ Linked'
<1> USE DEF Types, AdminTypeOK
<1>0. AtWork(e)
    BY DEF HandlersTypeOK
<1>1. CASE MembersFree(e) \/ RoutesFree(e)
    <2>1. UNCHANGED tables
        BY <1>1 DEF MembersFree, RoutesFree
    <2>2. CASE Return(e)
        BY <2>1, <2>2, ReturnSettled, SameTables
    <2>3. CASE ~Return(e)
        <3>1. at'[e] \in {"routes", "delete"} /\ job' = job
            BY <1>1, <2>3, ContinueAt DEF MembersFree, RoutesFree
        <3>2. at'[e] = "delete" => \A v \in VNames : ~RoutedBy(job[e].id, v)
            BY <1>1, <2>3, ContinueAt DEF MembersFree, RoutesFree
        <3> QED BY <2>1, <3>1, <3>2, SameTables DEF Settled, SavePlaces, RoutedBy
    <2> QED BY <2>2, <2>3
<1>2. CASE DeleteModel(e)
    <2>1. job[e] \in RemoveJob /\ Return(e) /\ ModelDeleteCascade(job[e].id)
        BY <1>0, <1>2 DEF DeleteModel, AtWork, EditPlaces, RemovePlaces, PricePlaces, SavePlaces
    <2> DEFINE m == job[e].id
    <2>2. m \in ModelIds /\ \A v \in VNames : ~RoutedBy(m, v)
        BY <1>2, <2>1 DEF DeleteModel, Settled, RemoveJob
    <2> HIDE DEF m
    <2>3. /\ models'[m] = NoRow /\ prices'[m] = NoRow /\ vmodels' = vmodels
          /\ \A n \in ModelIds : n # m => models'[n] = models[n] /\ prices'[n] = prices[n]
        BY <2>1, <2>2 DEF ModelDeleteCascade, TablesTypeOK, m
    <2>4. Linked'
        BY <2>2, <2>3 DEF Linked, NoOrphanPrice, RoutesExist, RoutedBy, ModelExists
    <2> QED BY <2>1, <2>4, ReturnSettled
<1> QED BY <1>1, <1>2 DEF Remove

LEMMA PriceSettled ==
    ASSUME Types, Linked, NEW e \in Editors, Settled(e), ModelKnown(e)
    PROVE  Settled(e)' /\ Linked'
<1>1. UNCHANGED tables
    BY DEF ModelKnown
<1>2. CASE Return(e)
    BY <1>1, <1>2, ReturnSettled, SameTables
<1>3. CASE ~Return(e)
    <2>1. at'[e] = "priced" /\ job' = job /\ ModelExists(job[e].id)
        BY <1>3, ContinueAt DEF ModelKnown
    <2> QED BY <1>1, <2>1, SameTables DEF Settled, SavePlaces, ModelExists
<1> QED BY <1>2, <1>3

LEMMA SaveSettled ==
    ASSUME Types, Linked, NEW e \in Editors, Settled(e), Save(e)
    PROVE  Settled(e)' /\ Linked'
<1> USE DEF Types, AdminTypeOK
<1>0. AtWork(e) /\ asked[e] \in Nat
    BY AdminAssumption DEF HandlersTypeOK
<1>1. CASE AskNext(e)
    <2>1. job[e] \in SaveJob /\ at[e] = "ask" /\ UNCHANGED tables
        BY <1>0, <1>1 DEF AskNext, AtWork, EditPlaces, RemovePlaces, PricePlaces, SavePlaces
    <2>2. CASE Return(e)
        BY <2>1, <2>2, ReturnSettled, SameTables
    <2>3. CASE ~Return(e)
        <3> DEFINE names == Named(job[e])
        <3>1. /\ ModelExists(names[asked[e] + 1])
              /\ asked' = [asked EXCEPT ![e] = @ + 1] /\ job' = job
              /\ at' = [at EXCEPT ![e] = IF asked[e] + 1 = Len(names) THEN "save" ELSE "ask"]
            BY <1>1, <2>3 DEF AskNext, Goto
        <3>2. \A i \in 1 .. asked[e] : ModelExists(names[i])
            BY <2>1 DEF Settled, SavePlaces
        <3>3. names' = names
            BY <3>1 DEF Named
        <3> HIDE DEF names
        <3>4. asked'[e] = asked[e] + 1
              /\ at'[e] = IF asked[e] + 1 = Len(names) THEN "save" ELSE "ask"
            BY <3>1 DEF HandlersTypeOK
        <3>5. \A i \in 1 .. asked'[e] : ModelExists(names[i])
            BY <1>0, <3>1, <3>2, <3>4
        <3>6. \A i \in 1 .. asked'[e] : models'[names'[i]] # NoRow
            BY <2>1, <3>3, <3>5 DEF ModelExists
        <3>7. at'[e] \in {"ask", "save"} /\ (at'[e] = "save" => asked'[e] = Len(names'))
            BY <3>3, <3>4
        <3>8. Settled(e)'
            BY <3>6, <3>7 DEF Settled, SavePlaces, names, ModelExists
        <3> QED BY <2>1, <3>8, SameTables
    <2> QED BY <2>2, <2>3
<1>2. CASE SaveVModel(e)
    <2>1. job[e] \in SaveJob /\ Return(e) /\ at[e] = "save"
        BY <1>0, <1>2 DEF SaveVModel, AtWork, EditPlaces, RemovePlaces, PricePlaces, SavePlaces
    <2> DEFINE members == job[e].members
    <2> DEFINE routes == job[e].routes
    <2> DEFINE name == job[e].name
    <2> DEFINE names == Named(job[e])
    <2>2. /\ members \in Seq(ModelIds) /\ routes \in Seq(ModelIds) /\ names \in Seq(ModelIds)
          /\ Len(names) = Len(members) + Len(routes)
          /\ \A i \in 1 .. Len(routes) : names[Len(members) + i] = routes[i]
        BY <2>1, NamedTypes
    <2>3. \A i \in 1 .. Len(names) : ModelExists(names[i])
        BY <2>1 DEF Settled, SavePlaces
    <2>4. /\ vmodels' = [vmodels EXCEPT ![name] = [members |-> members, routes |-> routes]]
          /\ models' = models /\ prices' = prices /\ name \in VNames
        BY <1>2, <2>1 DEF SaveVModel, VModelUpsert, SaveJob
    <2> HIDE DEF members, routes, name, names
    <2>5. \A i \in 1 .. Len(routes) : ModelExists(routes[i])
        BY <2>2, <2>3
    <2>6. \A m \in Range(routes) : ModelExists(m)
        BY <2>2, <2>5 DEF Range
    <2>7. vmodels'[name].routes = routes
          /\ \A v \in VNames : v # name => vmodels'[v] = vmodels[v]
        BY <2>4 DEF TablesTypeOK
    <2>8. RoutesExist'
        BY <2>4, <2>6, <2>7 DEF Linked, RoutesExist, RoutedBy, ModelExists
    <2>9. NoOrphanPrice'
        BY <2>4 DEF Linked, NoOrphanPrice, ModelExists
    <2> QED BY <2>1, <2>8, <2>9, ReturnSettled DEF Linked
<1>3. ASSUME NEW v \in VNames, RemoveVModel(e, v) PROVE Settled(e)' /\ Linked'
    <2>1. /\ vmodels'[v] = NoRow /\ \A w \in VNames : w # v => vmodels'[w] = vmodels[w]
          /\ models' = models /\ prices' = prices
        BY <1>3 DEF RemoveVModel, VModelDelete, TablesTypeOK
    <2>2. Linked'
        BY <2>1 DEF Linked, NoOrphanPrice, RoutesExist, RoutedBy, ModelExists
    <2>3. at'[e] = "idle"
        BY <1>3 DEF RemoveVModel
    <2> QED BY <2>2, <2>3 DEF Settled, SavePlaces
<1> QED BY <1>1, <1>2, <1>3 DEF Save

LEMMA HandlerOrderly ==
    ASSUME OneEditor, Orderly, NEW e \in Editors, Handler(e)
    PROVE  (\A d \in Editors : Settled(d)') /\ Linked'
<1>1. Types /\ Linked /\ Settled(e) /\ \A d \in Editors : d = e
    BY DEF OneEditor, Orderly
<1>2. CASE Abandon(e)
    BY <1>1, <1>2, ReturnSettled, SameTables DEF Abandon
<1>3. Settled(e)' /\ Linked'
    BY <1>1, <1>2, AcceptSettled, EditSettled, RemoveSettled, PriceSettled, SaveSettled DEF Handler
<1> QED BY <1>1, <1>3

\* Tests only make models exist, and touch neither prices nor virtual models.
LEMMA TestOrderly ==
    ASSUME Orderly, NEW t \in Testers, Test(t)
    PROVE  (\A d \in Editors : Settled(d)') /\ Linked'
<1>0. Types /\ Linked /\ \A d \in Editors : Settled(d)
    BY DEF Orderly
<1>1. at' = at /\ job' = job /\ asked' = asked /\ prices' = prices /\ vmodels' = vmodels
    BY DEF Test, ReadRows, DropTest, ProbeChangesNothing, ProbeCorrects, ModelUpsert
<1>2. Linked' /\ \A n \in ModelIds : models[n] # NoRow => models'[n] # NoRow
    BY <1>0, TestTableStep, UpsertKeeps, SameTables DEF ModelExists
<1>3. ASSUME NEW d \in Editors PROVE Settled(d)'
    <2>0. Settled(d) /\ AtWork(d) /\ asked[d] \in Nat
        BY <1>0, AdminAssumption DEF Types, AdminTypeOK, HandlersTypeOK
    <2>1. at[d] \in {"priced", "look", "match", "default"} => models'[job[d].id] # NoRow
        <3>1. at[d] \in {"priced", "look", "match", "default"} => job[d].id \in ModelIds
            BY <2>0 DEF AtWork, RemovePlaces, SavePlaces, EditJob, PriceJob
        <3> QED BY <1>2, <2>0, <3>1 DEF Settled, ModelExists
    <2>2. ASSUME at[d] \in SavePlaces, NEW i \in 1 .. asked[d] PROVE models'[Named(job[d])[i]] # NoRow
        <3>1. job[d] \in SaveJob
            BY <2>0, <2>2 DEF AtWork, EditPlaces, RemovePlaces, PricePlaces, SavePlaces
        <3>2. asked[d] <= Len(Named(job[d]))
            BY <1>0, <2>0, <2>2 DEF Types, Asking, Settled, SavePlaces
        <3> DEFINE names == Named(job[d])
        <3>3. names \in Seq(ModelIds)
            BY <3>1, NamedTypes
        <3>4. models[names[i]] # NoRow
            BY <2>0, <2>2 DEF Settled, ModelExists
        <3>5. asked[d] <= Len(names)
            BY <3>2
        <3> HIDE DEF names
        <3>6. names[i] \in ModelIds
            BY <2>0, <3>3, <3>5
        <3>7. models'[names[i]] # NoRow
            BY <1>2, <3>4, <3>6
        <3> QED BY <3>7 DEF names
    <2> QED BY <1>1, <2>0, <2>1, <2>2 DEF Settled, RoutedBy, ModelExists, Named
<1> QED BY <1>2, <1>3

LEMMA OrderlyAlways ==
    ASSUME OneEditor
    PROVE  Spec => []Orderly
<1>1. Init => Orderly
    <2>1. ASSUME Init PROVE Linked /\ \A e \in Editors : Settled(e)
        BY <2>1 DEF Init, EmptyTables, Linked, NoOrphanPrice, RoutesExist, RoutedBy, Settled, SavePlaces
    <2> QED BY <2>1, InitTypes DEF Orderly
<1>2. Orderly /\ [Next]_vars => Orderly'
    <2> SUFFICES ASSUME Orderly, [Next]_vars PROVE Orderly'
        OBVIOUS
    <2>1. Types'
        BY StepTypes DEF Orderly
    <2>2. CASE UNCHANGED vars
        BY <2>1, <2>2 DEF Orderly, Linked, NoOrphanPrice, RoutesExist, RoutedBy, ModelExists, Settled, Named
    <2>3. CASE Next
        BY <2>1, <2>3, HandlerOrderly, TestOrderly DEF Next, Orderly
    <2> QED BY <2>2, <2>3
<1> QED BY <1>1, <1>2, PTL DEF Spec

\* With one handler at a time, and any tests beside it, no price is left
\* without a model (delete_model, update_prices, upsert_from_body).
THEOREM NoOrphanPriceForOne ==
    ASSUME OneEditor
    PROVE  Spec => []NoOrphanPrice
<1>1. Orderly => NoOrphanPrice
    BY DEF Orderly, Linked
<1>2. Spec => []Orderly
    BY OrderlyAlways
<1> QED BY <1>1, <1>2, PTL

\* With one handler at a time, and any tests beside it, the models that a
\* virtual model's params name are there (upsert_vmodel, model_references).
THEOREM RoutesExistForOne ==
    ASSUME OneEditor
    PROVE  Spec => []RoutesExist
<1>1. Orderly => RoutesExist
    BY DEF Orderly, Linked
<1>2. Spec => []Orderly
    BY OrderlyAlways
<1> QED BY <1>1, <1>2, PTL

\* With one handler at a time a default never replaces a price set by hand
\* (upsert_from_body).
THEOREM HandPriceKeptForOne ==
    ASSUME OneEditor
    PROVE  Spec => HandPriceKept
<1> DEFINE Kept == \A m \in ModelIds : prices[m] = "hand" =>
                      prices'[m] = "hand" \/ (prices'[m] = NoRow /\ ~ModelExists(m)')
<1>1. Orderly /\ [Next]_vars => [Kept]_vars
    <2> SUFFICES ASSUME Orderly, Next PROVE Kept
        OBVIOUS
    <2>0. TablesTypeOK /\ "hand" # NoRow
        BY RegistryAssumption DEF Orderly, Types, AdminTypeOK, PriceRow
    <2>1. ASSUME NEW e \in Editors, WriteDefault(e) PROVE Kept
        <3>1. prices[job[e].id] = NoRow /\ prices' = [prices EXCEPT ![job[e].id] = "default"]
            BY <2>1 DEF Orderly, Settled, WriteDefault, PriceUpsert
        <3> QED BY <2>0, <3>1 DEF TablesTypeOK
    <2>2. ASSUME NEW e \in Editors, WritePrice(e) PROVE Kept
        BY <2>0, <2>2 DEF WritePrice, PriceUpsert, TablesTypeOK
    <2>3. ASSUME NEW e \in Editors, DeleteModel(e) PROVE Kept
        BY <2>0, <2>3 DEF DeleteModel, ModelDeleteCascade, TablesTypeOK, ModelExists
    <2>4. ASSUME NEW e \in Editors, Handler(e), ~WriteDefault(e), ~WritePrice(e), ~DeleteModel(e)
          PROVE  Kept
        <3>1. prices' = prices
            BY <2>4 DEF Handler, Accept, Abandon, Edit, Remove, Save, ModelKnown, KeepKey, LookForPrice,
                MatchDefault, WriteModel, MembersFree, RoutesFree, AskNext, SaveVModel, RemoveVModel,
                ModelUpsert, VModelUpsert, VModelDelete
        <3> QED BY <3>1
    <2>5. ASSUME NEW t \in Testers, Test(t) PROVE Kept
        BY <2>5 DEF Test, ReadRows, DropTest, ProbeChangesNothing, ProbeCorrects, ModelUpsert
    <2> QED BY <2>1, <2>2, <2>3, <2>4, <2>5 DEF Next
<1>2. Spec => []Orderly
    BY OrderlyAlways
<1>3. Spec => [][Kept]_vars
    BY <1>1, <1>2, PTL DEF Spec
<1> QED BY <1>3 DEF HandPriceKept

-----------------------------------------------------------------------------
(* Keys *)

USE DEF keyTables, keyVars, allVars

-----------------------------------------------------------------------------
(* The tables of keys *)

Rows  == [KeyIds -> KeyRow \cup {NoKeyRow}]
AclLists == [KeyIds -> SUBSET VNames]

\* The key of that id is there, is the caller's own and is enabled.
Own(rows, k, secret) ==
    rows[k] # NoKeyRow /\ rows[k].secret = secret /\ rows[k].enabled

Unique(rows) ==
    \A k, l \in KeyIds :
        rows[k] # NoKeyRow /\ rows[l] # NoKeyRow /\ rows[k].secret = rows[l].secret => k = l

\* What a step does to the two tables, and whether it opens a key to all
\* virtual models.
Change(rows, lists, rows2, lists2, opens) ==
    \/ rows2 = rows /\ \A k \in KeyIds : lists2[k] \subseteq lists[k]
    \/ \E k \in KeyIds, row \in KeyRow :
          /\ rows[k] = NoKeyRow
          /\ \A l \in KeyIds : rows[l] # NoKeyRow => rows[l].secret # row.secret
          /\ rows2 = [rows EXCEPT ![k] = row] /\ lists2 = lists
    \/ \E k \in KeyIds, row \in KeyRow :
          /\ rows[k] # NoKeyRow
          /\ row.secret = rows[k].secret /\ row.all = rows[k].all
          /\ rows2 = [rows EXCEPT ![k] = row] /\ lists2 = lists
    \/ \E k \in KeyIds :
          rows2 = [rows EXCEPT ![k] = NoKeyRow] /\ lists2 = [lists EXCEPT ![k] = {}]
    \/ \E k \in KeyIds, row \in KeyRow, names \in SUBSET VNames :
          /\ rows[k] # NoKeyRow
          /\ row.secret = rows[k].secret /\ row.enabled = rows[k].enabled
          /\ row.all => opens
          /\ rows2 = [rows EXCEPT ![k] = row] /\ lists2 = [lists EXCEPT ![k] = names]

LEMMA ChangeTypes ==
    ASSUME NEW rows \in Rows, NEW lists \in AclLists, NEW rows2, NEW lists2 \in AclLists, NEW opens,
           Unique(rows), Change(rows, lists, rows2, lists2, opens)
    PROVE  rows2 \in Rows /\ Unique(rows2)
<1> USE DEF Rows, Unique
<1>0. NoKeyRow \notin KeyRow BY KeyAssumption DEF NoKeyRow
<1>1. CASE rows2 = rows BY <1>1
<1>2. ASSUME NEW k \in KeyIds, NEW row \in KeyRow,
             rows[k] = NoKeyRow,
             \A l \in KeyIds : rows[l] # NoKeyRow => rows[l].secret # row.secret,
             rows2 = [rows EXCEPT ![k] = row]
      PROVE  rows2 \in Rows /\ Unique(rows2)
  BY <1>0, <1>2
<1>3. ASSUME NEW k \in KeyIds, NEW row \in KeyRow, rows[k] # NoKeyRow,
             row.secret = rows[k].secret, rows2 = [rows EXCEPT ![k] = row]
      PROVE  rows2 \in Rows /\ Unique(rows2)
  BY <1>0, <1>3
<1>4. ASSUME NEW k \in KeyIds, rows2 = [rows EXCEPT ![k] = NoKeyRow]
      PROVE  rows2 \in Rows /\ Unique(rows2)
  BY <1>4
<1>5. QED BY <1>1, <1>2, <1>3, <1>4 DEF Change

-----------------------------------------------------------------------------
(* One check, beside the steps of the tables *)

\* What the answer of a check rests on, whatever it has read so far.
Sound(rows, lists, q, h) ==
    /\ q.at \in {"key", "list"} =>
          IF Allowed(rows, lists, q.secret, q.name) THEN TRUE \in h.verdicts
                                                    ELSE FALSE \in h.verdicts
    /\ q.at = "list" /\ TRUE \notin h.verdicts /\ h.changes = 0 => Own(rows, q.id, q.secret)
    /\ q.at = "list" /\ TRUE \notin h.verdicts /\ h.changes \in {0, 1} =>
          q.name \notin lists[q.id]
    /\ q.at = "list" /\ FALSE \notin h.verdicts /\ ~h.opened =>
          Own(rows, q.id, q.secret) /\ ~rows[q.id].all
    /\ q.at = "admitted" => TRUE \in h.verdicts \/ h.changes = 2
    /\ q.at = "refused" => FALSE \in h.verdicts \/ h.opened

\* Witnessed, for tables that are named.
Seen(rows, lists, rows2, lists2, h, verdict, opens) ==
    LET verdicts == h.verdicts \cup {verdict}
    IN  [verdicts |-> verdicts,
         changes  |-> IF TRUE \in verdicts THEN 0
                      ELSE IF <<rows2, lists2>> # <<rows, lists>> /\ h.changes < 2
                           THEN h.changes + 1 ELSE h.changes,
         opened   |-> FALSE \notin verdicts /\ (h.opened \/ opens)]

LEMMA SeenType ==
    ASSUME NEW rows, NEW lists, NEW rows2, NEW lists2, NEW h \in History,
           NEW verdict \in BOOLEAN, NEW opens \in BOOLEAN
    PROVE  Seen(rows, lists, rows2, lists2, h, verdict, opens) \in History
<1> DEFINE verdicts == h.verdicts \cup {verdict}
           changes  == IF TRUE \in verdicts THEN 0
                       ELSE IF <<rows2, lists2>> # <<rows, lists>> /\ h.changes < 2
                            THEN h.changes + 1 ELSE h.changes
           opened   == FALSE \notin verdicts /\ (h.opened \/ opens)
<1>1. verdicts \in SUBSET BOOLEAN BY DEF History
<1>2. changes \in 0 .. 2
  <2>1. h.changes \in 0 .. 2 BY DEF History
  <2> DEFINE yes   == TRUE \in verdicts
             moved == <<rows2, lists2>> # <<rows, lists>>
  <2>2. changes = IF yes THEN 0
                  ELSE IF moved /\ h.changes < 2 THEN h.changes + 1 ELSE h.changes
    OBVIOUS
  <2> HIDE DEF yes, moved, changes
  <2>3. CASE yes BY <2>2, <2>3
  <2>4. CASE ~yes
    <3>1. CASE moved /\ h.changes < 2 BY <2>1, <2>2, <2>4, <3>1
    <3>2. CASE ~(moved /\ h.changes < 2) BY <2>1, <2>2, <2>4, <3>2
    <3>3. QED BY <3>1, <3>2
  <2>5. QED BY <2>3, <2>4
<1>3. opened \in BOOLEAN OBVIOUS
<1>4. Seen(rows, lists, rows2, lists2, h, verdict, opens)
        = [verdicts |-> verdicts, changes |-> changes, opened |-> opened]
  BY DEF Seen
<1> HIDE DEF verdicts, changes, opened
<1>5. QED BY <1>1, <1>2, <1>3, <1>4 DEF History

\* Of the key that was found: what no single step does to its list while the
\* rule refuses its caller ...
LEMMA ChangeLists ==
    ASSUME NEW rows \in Rows, NEW lists \in AclLists, NEW rows2 \in Rows,
           NEW lists2 \in AclLists, NEW opens,
           Change(rows, lists, rows2, lists2, opens),
           NEW id \in KeyIds, NEW secret, NEW name,
           Own(rows, id, secret), name \notin lists[id],
           ~Allowed(rows2, lists2, secret, name)
    PROVE  name \notin lists2[id]
<1> USE DEF Rows, AclLists
<1>0. NoKeyRow \notin KeyRow BY KeyAssumption DEF NoKeyRow
<1>1. CASE rows2 = rows /\ \A k \in KeyIds : lists2[k] \subseteq lists[k] BY <1>1
<1>2. CASE lists2 = lists BY <1>2
<1>3. ASSUME NEW k \in KeyIds, lists2 = [lists EXCEPT ![k] = {}]
      PROVE  name \notin lists2[id]
  BY <1>3
<1>4. ASSUME NEW k \in KeyIds, NEW row \in KeyRow, NEW names \in SUBSET VNames,
             rows[k] # NoKeyRow, row.secret = rows[k].secret, row.enabled = rows[k].enabled,
             rows2 = [rows EXCEPT ![k] = row], lists2 = [lists EXCEPT ![k] = names]
      PROVE  name \notin lists2[id]
  <2>1. CASE k # id BY <1>4, <2>1
  <2>2. CASE k = id
    <3>1. rows2[id] = row /\ lists2[id] = names BY <1>4, <2>2
    <3>2. rows2[id] # NoKeyRow /\ rows2[id].secret = secret /\ rows2[id].enabled
      BY <1>0, <1>4, <2>2, <3>1 DEF Own
    <3>3. QED BY <3>2 DEF Allowed
  <2>3. QED BY <2>1, <2>2
<1>5. QED BY <1>1, <1>2, <1>3, <1>4 DEF Change

\* ... and what none does to its row while the rule admits him.
LEMMA ChangeRow ==
    ASSUME NEW rows \in Rows, NEW lists \in AclLists, NEW rows2 \in Rows,
           NEW lists2 \in AclLists, NEW opens, ~opens,
           Unique(rows), Unique(rows2), Change(rows, lists, rows2, lists2, opens),
           NEW id \in KeyIds, NEW secret, NEW name,
           Own(rows, id, secret), ~rows[id].all,
           Allowed(rows2, lists2, secret, name)
    PROVE  Own(rows2, id, secret) /\ ~rows2[id].all
<1> USE DEF Rows, AclLists
<1>0. NoKeyRow \notin KeyRow BY KeyAssumption DEF NoKeyRow
<1>1. PICK a \in KeyIds : rows2[a] # NoKeyRow /\ rows2[a].secret = secret /\ rows2[a].enabled
  BY DEF Allowed
<1>2. rows2[id] # NoKeyRow /\ rows2[id].secret = secret => a = id
  BY <1>1 DEF Unique
<1>3. CASE rows2 = rows BY <1>3
<1>4. ASSUME NEW k \in KeyIds, NEW row \in KeyRow, rows[k] = NoKeyRow,
             rows2 = [rows EXCEPT ![k] = row]
      PROVE  Own(rows2, id, secret) /\ ~rows2[id].all
  BY <1>4 DEF Own
<1>5. ASSUME NEW k \in KeyIds, NEW row \in KeyRow, rows[k] # NoKeyRow,
             row.secret = rows[k].secret, row.all = rows[k].all,
             rows2 = [rows EXCEPT ![k] = row]
      PROVE  Own(rows2, id, secret) /\ ~rows2[id].all
  <2>1. CASE k # id BY <1>5, <2>1 DEF Own
  <2>2. CASE k = id
    <3>1. rows2[id] = row BY <1>5, <2>2
    <3>2. rows2[id] # NoKeyRow /\ rows2[id].secret = secret
      BY <1>0, <1>5, <2>2, <3>1 DEF Own
    <3>3. rows2[id].enabled BY <1>1, <1>2, <3>2
    <3>4. ~rows2[id].all BY <1>5, <2>2, <3>1
    <3>5. QED BY <3>2, <3>3, <3>4 DEF Own
  <2>3. QED BY <2>1, <2>2
<1>6. ASSUME NEW k \in KeyIds, rows2 = [rows EXCEPT ![k] = NoKeyRow]
      PROVE  Own(rows2, id, secret) /\ ~rows2[id].all
  <2>1. CASE k # id BY <1>6, <2>1 DEF Own
  <2>2. CASE k = id
    <3>1. a # id /\ rows2[a] = rows[a] BY <1>1, <1>6, <2>2
    <3>2. a = id BY <1>1, <3>1 DEF Unique, Own
    <3>3. QED BY <3>1, <3>2
  <2>3. QED BY <2>1, <2>2
<1>7. ASSUME NEW k \in KeyIds, NEW row \in KeyRow, NEW names \in SUBSET VNames,
             rows[k] # NoKeyRow, row.secret = rows[k].secret, row.enabled = rows[k].enabled,
             row.all => opens,
             rows2 = [rows EXCEPT ![k] = row], lists2 = [lists EXCEPT ![k] = names]
      PROVE  Own(rows2, id, secret) /\ ~rows2[id].all
  <2>1. CASE k # id BY <1>7, <2>1 DEF Own
  <2>2. CASE k = id
    <3>1. rows2[id] = row BY <1>7, <2>2
    <3>2. QED BY <1>0, <1>7, <2>2, <3>1 DEF Own
  <2>3. QED BY <2>1, <2>2
<1>8. QED BY <1>3, <1>4, <1>5, <1>6, <1>7 DEF Change

LEMMA SoundStep ==
    ASSUME NEW rows \in Rows, NEW lists \in AclLists, NEW rows2 \in Rows,
           NEW lists2 \in AclLists, NEW opens \in BOOLEAN,
           Unique(rows), Unique(rows2), Change(rows, lists, rows2, lists2, opens),
           NEW q \in Claim, q.at \in {"key", "list"}, q.at = "list" => q.id \in KeyIds,
           NEW h \in History, Sound(rows, lists, q, h),
           NEW verdict \in BOOLEAN, verdict = TRUE <=> Allowed(rows2, lists2, q.secret, q.name),
           NEW h2, h2 = Seen(rows, lists, rows2, lists2, h, verdict, opens)
    PROVE  Sound(rows2, lists2, q, h2)
<1> DEFINE moved == <<rows2, lists2>> # <<rows, lists>>
<1>1. /\ h2.verdicts = h.verdicts \cup {verdict}
      /\ h2.changes = IF TRUE \in h2.verdicts THEN 0
                      ELSE IF moved /\ h.changes < 2 THEN h.changes + 1 ELSE h.changes
      /\ h2.opened = (FALSE \notin h2.verdicts /\ (h.opened \/ opens))
  BY DEF Seen
<1>2. h.changes \in 0 .. 2 /\ h.opened \in BOOLEAN BY DEF History
<1>3. ~moved => rows2 = rows /\ lists2 = lists OBVIOUS
<1> DEFINE allowed == Allowed(rows2, lists2, q.secret, q.name)
<1>4. (allowed => TRUE \in h2.verdicts) /\ (~allowed => FALSE \in h2.verdicts)
  BY <1>1
<1>5. ASSUME TRUE \notin h2.verdicts
      PROVE  /\ TRUE \notin h.verdicts /\ ~allowed
             /\ h2.changes = 0 => h.changes = 0 /\ ~moved
             /\ h2.changes = 1 => h.changes = 0 \/ (h.changes = 1 /\ ~moved)
  <2>1. TRUE \notin h.verdicts /\ ~allowed BY <1>1, <1>4, <1>5
  <2>2. h2.changes = IF moved /\ h.changes < 2 THEN h.changes + 1 ELSE h.changes
    BY <1>1, <1>5
  <2> HIDE DEF moved, allowed
  <2>3. CASE moved /\ h.changes < 2
    <3>1. h2.changes = h.changes + 1 /\ h.changes \in {0, 1} BY <1>2, <2>2, <2>3
    <3>2. h2.changes # 0 /\ (h2.changes = 1 => h.changes = 0) BY <3>1
    <3>3. QED BY <2>1, <3>2, Zenon
  <2>4. CASE ~(moved /\ h.changes < 2)
    <3>1. h2.changes = h.changes BY <2>2, <2>4
    <3>2. ~moved \/ h.changes = 2 BY <1>2, <2>4
    <3>3. CASE ~moved BY <2>1, <3>1, <3>3, Zenon
    <3>4. CASE h.changes = 2
      <4>1. h2.changes # 0 /\ h2.changes # 1 BY <3>1, <3>4
      <4>2. QED BY <2>1, <4>1, Zenon
    <3>5. QED BY <3>2, <3>3, <3>4
  <2>5. QED BY <2>3, <2>4
<1>6. ASSUME FALSE \notin h2.verdicts, ~h2.opened
      PROVE  FALSE \notin h.verdicts /\ ~h.opened /\ ~opens /\ allowed
  BY <1>1, <1>2, <1>4, <1>6
<1> HIDE DEF moved, allowed
<1>7. ASSUME q.at = "list", TRUE \notin h2.verdicts, h2.changes = 0
      PROVE  Own(rows2, q.id, q.secret)
  BY <1>3, <1>5, <1>7 DEF Sound
<1>8. ASSUME q.at = "list", TRUE \notin h2.verdicts, h2.changes \in {0, 1}
      PROVE  q.name \notin lists2[q.id]
  <2>1. TRUE \notin h.verdicts /\ ~Allowed(rows2, lists2, q.secret, q.name)
    BY <1>5, <1>8 DEF allowed
  <2>2. h.changes \in {0, 1} /\ q.name \notin lists[q.id] BY <1>5, <1>8, <2>1 DEF Sound
  <2>3. CASE ~moved BY <1>3, <2>2, <2>3
  <2>4. CASE moved
    <3>1. h.changes = 0 BY <1>5, <1>8, <2>4
    <3>2. Own(rows, q.id, q.secret) BY <1>8, <2>1, <3>1 DEF Sound
    <3>3. QED BY <1>8, <2>1, <2>2, <3>2, ChangeLists
  <2>5. QED BY <2>3, <2>4
<1>9. ASSUME q.at = "list", FALSE \notin h2.verdicts, ~h2.opened
      PROVE  Own(rows2, q.id, q.secret) /\ ~rows2[q.id].all
  <2>1. FALSE \notin h.verdicts /\ ~h.opened /\ ~opens
        /\ Allowed(rows2, lists2, q.secret, q.name)
    BY <1>6, <1>9 DEF allowed
  <2>2. Own(rows, q.id, q.secret) /\ ~rows[q.id].all BY <1>9, <2>1 DEF Sound
  <2>3. QED BY <1>9, <2>1, <2>2, ChangeRow
<1>10. QED BY <1>4, <1>7, <1>8, <1>9 DEF Sound, allowed

-----------------------------------------------------------------------------
(* The invariant *)

\* A secret is in one row at most, and was made.
RowsInv ==
    /\ Unique(keys)
    /\ \A k \in KeyIds : keys[k] # NoKeyRow => keys[k].secret \in made

ChecksInv ==
    \A c \in Callers : claim[c] # NoClaim => Sound(keys, acl, claim[c], during[c])

KeyInv == Types /\ KeyTypeOK /\ RowsInv /\ ListsRefer /\ ChecksInv

LEMMA InitKeyInv == KeyInit => KeyInv
<1> SUFFICES ASSUME KeyInit PROVE KeyInv
  OBVIOUS
<1> USE DEF KeyInit
<1>1. Types BY InitTypes
<1>2. NoHistory \in History
  <2>1. {} \in SUBSET BOOLEAN /\ 0 \in 0 .. 2 /\ FALSE \in BOOLEAN OBVIOUS
  <2>2. QED BY <2>1 DEF NoHistory, History
<1>3. KeyTypeOK
  <2>1. claim \in [Callers -> Claim \cup {NoClaim}] OBVIOUS
  <2>2. during \in [Callers -> History] BY <1>2
  <2>3. keys \in [KeyIds -> KeyRow \cup {NoKeyRow}] /\ acl \in [KeyIds -> SUBSET VNames]
        /\ made \subseteq Secrets
    OBVIOUS
  <2>4. \A c \in Callers : claim[c] = NoClaim OBVIOUS
  <2>5. QED BY <2>1, <2>2, <2>3, <2>4 DEF KeyTypeOK
<1>4. RowsInv BY DEF RowsInv, Unique
<1>5. ListsRefer BY DEF ListsRefer
<1>6. ChecksInv BY DEF ChecksInv
<1>7. QED BY <1>1, <1>3, <1>4, <1>5, <1>6 DEF KeyInv

\* Any step of the tables, as the checks under way see it.
LEMMA TablesStep ==
    ASSUME KeyTypeOK, RowsInv, ChecksInv,
           acl' \in AclLists, NEW opens \in BOOLEAN,
           Change(keys, acl, keys', acl', opens),
           claim' = claim, Observe(opens)
    PROVE  /\ keys' \in Rows /\ Unique(keys')
           /\ during' \in [Callers -> History]
           /\ ChecksInv'
<1>1. keys \in Rows /\ acl \in AclLists /\ Unique(keys)
  BY DEF KeyTypeOK, RowsInv, Rows, AclLists
<1>2. keys' \in Rows /\ Unique(keys') BY <1>1, ChangeTypes
<1>3. ASSUME NEW c \in Callers
      PROVE  /\ during'[c] \in History
             /\ claim'[c] # NoClaim => Sound(keys', acl', claim'[c], during'[c])
  <2> DEFINE q == claim[c]
             h == during[c]
             verdict == Allowed(keys', acl', claim[c].secret, claim[c].name)
  <2>1. h \in History /\ q \in Claim \cup {NoClaim} BY DEF KeyTypeOK
  <2>2. claim'[c] = q OBVIOUS
  <2>3. verdict \in BOOLEAN BY DEF Allowed
  <2>4. CASE Checking(c)
    <3>1. /\ q # NoClaim /\ q \in Claim /\ q.at \in {"key", "list"}
          /\ q.at = "list" => q.id \in KeyIds
      BY <2>1, <2>4 DEF Checking, KeyTypeOK
    <3>2. Sound(keys, acl, q, h) BY <3>1 DEF ChecksInv
    <3>3. during'[c] = Witnessed(h, verdict, opens) BY <2>4 DEF Observe
    <3>4. during'[c] = Seen(keys, acl, keys', acl', h, verdict, opens)
      BY <3>3 DEF Witnessed, Seen
    <3>5. verdict = TRUE <=> Allowed(keys', acl', q.secret, q.name) BY <2>3
    <3> HIDE DEF q, h, verdict
    <3>6. during'[c] \in History BY <2>1, <2>3, <3>4, SeenType
    <3>7. Sound(keys', acl', q, during'[c])
      BY <1>1, <1>2, <2>1, <2>3, <3>1, <3>2, <3>4, <3>5, SoundStep
    <3>8. QED BY <2>2, <3>6, <3>7
  <2>5. CASE ~Checking(c)
    <3>1. during'[c] = h BY <2>5 DEF Observe
    <3>2. q # NoClaim => q.at \notin {"key", "list"} /\ Sound(keys, acl, q, h)
      BY <2>5 DEF Checking, ChecksInv
    <3>3. q # NoClaim => Sound(keys', acl', q, h)
      <4> HIDE DEF q, h, verdict
      <4>1. QED BY <3>2 DEF Sound
    <3>4. QED BY <2>1, <2>2, <3>1, <3>3
  <2>6. QED BY <2>4, <2>5
<1>4. during' \in [Callers -> History]
  <2>1. during' = [c \in Callers |-> during'[c]] BY DEF Observe
  <2>2. QED BY <1>3, <2>1
<1>5. ChecksInv' BY <1>3 DEF ChecksInv
<1>6. QED BY <1>2, <1>4, <1>5

\* A step of the operator's other handlers or of a test.
LEMMA CascadeStep ==
    ASSUME KeyInv, Next, Cascade, UNCHANGED <<keys, made, claim>>, Observe(FALSE)
    PROVE  KeyInv'
<1> USE DEF KeyInv
<1>1. Types' BY StepTypes
<1>2. acl \in AclLists /\ acl' \in AclLists /\ \A k \in KeyIds : acl'[k] \subseteq acl[k]
  BY DEF Cascade, KeyTypeOK, AclLists
<1>3. Change(keys, acl, keys', acl', FALSE) BY <1>2 DEF Change
<1>4. during' \in [Callers -> History] /\ ChecksInv' BY <1>2, <1>3, TablesStep
<1>5. KeyTypeOK' BY <1>2, <1>4 DEF KeyTypeOK, AclLists
<1>6. RowsInv' BY DEF RowsInv
<1>7. ListsRefer' BY DEF ListsRefer, Cascade, KeyExists
<1>8. QED BY <1>1, <1>4, <1>5, <1>6, <1>7

\* A handler of keys.
LEMMA InsertChange ==
    ASSUME KeyTypeOK, RowsInv, ListsRefer, NEW k \in KeyIds, NEW s \in Secrets, KeyInsert(k, s),
           UNCHANGED vars
    PROVE  /\ Change(keys, acl, keys', acl', FALSE) /\ acl' \in AclLists
           /\ made' \subseteq Secrets
           /\ \A l \in KeyIds : keys'[l] # NoKeyRow => keys'[l].secret \in made'
           /\ ListsRefer'
<1> USE DEF KeyInsert, KeyTypeOK, RowsInv
<1>0. NoKeyRow \notin KeyRow BY KeyAssumption DEF NoKeyRow
<1>1. keys[k] = NoKeyRow
  <2>1. KeyExists(k) => k < k BY DEF NextKeyId
  <2>2. k \in Int BY KeyAssumption DEF KeyIds
  <2>3. ~(k < k) BY <2>2
  <2>4. QED BY <2>1, <2>3 DEF KeyExists
<1> DEFINE row == [secret |-> s, enabled |-> TRUE, all |-> FALSE]
<1>2. row \in KeyRow /\ row.secret = s BY DEF KeyRow
<1>3. keys' = [keys EXCEPT ![k] = row] /\ acl' = acl /\ made' = made \cup {s} /\ s \notin made
  OBVIOUS
<1> HIDE DEF row
<1>4. \A l \in KeyIds : keys[l] # NoKeyRow => keys[l].secret # row.secret BY <1>2, <1>3
<1>5. Change(keys, acl, keys', acl', FALSE) BY <1>1, <1>2, <1>3, <1>4 DEF Change
<1>6. acl' \in AclLists BY <1>3 DEF AclLists
<1>7. \A l \in KeyIds : keys'[l] # NoKeyRow => keys'[l].secret \in made' BY <1>2, <1>3
<1>8. \A l \in KeyIds : KeyExists(l) => keys'[l] # NoKeyRow BY <1>0, <1>2, <1>3 DEF KeyExists
<1>9. ListsRefer' BY <1>3, <1>8 DEF ListsRefer, KeyExists
<1>10. QED BY <1>2, <1>3, <1>5, <1>6, <1>7, <1>9

LEMMA EnableChange ==
    ASSUME KeyTypeOK, RowsInv, ListsRefer, NEW k \in KeyIds, NEW enabled \in BOOLEAN,
           KeySetEnabled(k, enabled), UNCHANGED vars
    PROVE  /\ Change(keys, acl, keys', acl', FALSE) /\ acl' \in AclLists
           /\ made' \subseteq Secrets
           /\ \A l \in KeyIds : keys'[l] # NoKeyRow => keys'[l].secret \in made'
           /\ ListsRefer'
<1> USE DEF KeySetEnabled, KeyTypeOK, RowsInv
<1>0. NoKeyRow \notin KeyRow BY KeyAssumption DEF NoKeyRow
<1>1. keys[k] # NoKeyRow /\ keys[k] \in KeyRow BY DEF KeyExists
<1> DEFINE row == [secret |-> keys[k].secret, enabled |-> enabled, all |-> keys[k].all]
<1>2. row \in KeyRow /\ row.secret = keys[k].secret /\ row.all = keys[k].all BY <1>1 DEF KeyRow
<1>3. keys' = [keys EXCEPT ![k] = row] /\ acl' = acl /\ made' = made
  OBVIOUS
<1> HIDE DEF row
<1>4. Change(keys, acl, keys', acl', FALSE) BY <1>1, <1>2, <1>3 DEF Change
<1>5. acl' \in AclLists BY <1>3 DEF AclLists
<1>6. \A l \in KeyIds : keys'[l] # NoKeyRow => keys'[l].secret \in made' BY <1>1, <1>2, <1>3
<1>7. \A l \in KeyIds : KeyExists(l) => keys'[l] # NoKeyRow BY <1>0, <1>2, <1>3 DEF KeyExists
<1>8. ListsRefer' BY <1>3, <1>7 DEF ListsRefer, KeyExists
<1>9. QED BY <1>3, <1>4, <1>5, <1>6, <1>8

LEMMA DeleteChange ==
    ASSUME KeyTypeOK, RowsInv, ListsRefer, NEW k \in KeyIds, KeyDelete(k), UNCHANGED vars
    PROVE  /\ Change(keys, acl, keys', acl', FALSE) /\ acl' \in AclLists
           /\ made' \subseteq Secrets
           /\ \A l \in KeyIds : keys'[l] # NoKeyRow => keys'[l].secret \in made'
           /\ ListsRefer'
<1> USE DEF KeyDelete, KeyTypeOK, RowsInv
<1>1. Change(keys, acl, keys', acl', FALSE) BY DEF Change
<1>2. acl' \in AclLists BY DEF AclLists
<1>3. \A l \in KeyIds : keys'[l] # NoKeyRow => keys'[l].secret \in made' OBVIOUS
<1>4. ListsRefer' BY DEF ListsRefer, KeyExists
<1>5. QED BY <1>1, <1>2, <1>3, <1>4

LEMMA AclChange ==
    ASSUME KeyTypeOK, RowsInv, ListsRefer, NEW k \in KeyIds, NEW all \in BOOLEAN,
           NEW names \in SUBSET VNames, KeySetAcl(k, all, names), UNCHANGED vars
    PROVE  /\ Change(keys, acl, keys', acl', all) /\ acl' \in AclLists
           /\ made' \subseteq Secrets
           /\ \A l \in KeyIds : keys'[l] # NoKeyRow => keys'[l].secret \in made'
           /\ ListsRefer'
<1> USE DEF KeySetAcl, KeyTypeOK, RowsInv
<1>0. NoKeyRow \notin KeyRow BY KeyAssumption DEF NoKeyRow
<1>1. keys[k] # NoKeyRow /\ keys[k] \in KeyRow BY DEF KeyExists
<1> DEFINE row == [secret |-> keys[k].secret, enabled |-> keys[k].enabled, all |-> all]
<1>2. row \in KeyRow /\ row.secret = keys[k].secret /\ row.enabled = keys[k].enabled
  BY <1>1 DEF KeyRow
<1>3. row.all => all OBVIOUS
<1>4. keys' = [keys EXCEPT ![k] = row] /\ acl' = [acl EXCEPT ![k] = names] /\ made' = made
      /\ \A v \in names : vmodels[v] # NoRow
  OBVIOUS
<1> HIDE DEF row
<1>5. Change(keys, acl, keys', acl', all)
  <2>1. /\ keys[k] # NoKeyRow
        /\ row.secret = keys[k].secret /\ row.enabled = keys[k].enabled
        /\ row.all => all
        /\ keys' = [keys EXCEPT ![k] = row] /\ acl' = [acl EXCEPT ![k] = names]
    BY <1>1, <1>2, <1>3, <1>4
  <2>2. row \in KeyRow BY <1>2
  <2> HIDE DEF KeySetAcl, KeyTypeOK, RowsInv
  <2>3. QED BY ONLY <2>1, <2>2 DEF Change
<1>6. acl' \in AclLists BY <1>4 DEF AclLists
<1>7. \A l \in KeyIds : keys'[l] # NoKeyRow => keys'[l].secret \in made' BY <1>1, <1>2, <1>4
<1>8. \A l \in KeyIds : KeyExists(l) => keys'[l] # NoKeyRow BY <1>0, <1>2, <1>4 DEF KeyExists
<1>9. keys'[k] # NoKeyRow BY <1>0, <1>2, <1>4
<1>10. vmodels' = vmodels OBVIOUS
<1>11. ListsRefer' BY <1>4, <1>8, <1>9, <1>10 DEF ListsRefer, KeyExists
<1>12. QED BY <1>4, <1>5, <1>6, <1>7, <1>11

LEMMA HandlerStep ==
    ASSUME KeyInv, KeyHandler, UNCHANGED <<vars, claim>>
    PROVE  KeyInv'
<1> USE DEF KeyInv
<1>1. Types'
  <2>1. [Next]_vars OBVIOUS
  <2>2. QED BY <2>1, StepTypes
<1>2. ASSUME NEW opens \in BOOLEAN, Observe(opens),
             Change(keys, acl, keys', acl', opens), acl' \in AclLists,
             made' \subseteq Secrets,
             \A l \in KeyIds : keys'[l] # NoKeyRow => keys'[l].secret \in made',
             ListsRefer'
      PROVE  KeyInv'
  <2>1. keys' \in Rows /\ Unique(keys') /\ during' \in [Callers -> History] /\ ChecksInv'
    BY <1>2, TablesStep
  <2>2. KeyTypeOK' BY <1>2, <2>1 DEF KeyTypeOK, Rows, AclLists
  <2>3. RowsInv' BY <1>2, <2>1 DEF RowsInv
  <2>4. QED BY <1>1, <1>2, <2>1, <2>2, <2>3
<1>3. UNCHANGED vars OBVIOUS
<1>4. CASE (\E k \in KeyIds, s \in Secrets : KeyInsert(k, s)) /\ Observe(FALSE)
  BY <1>2, <1>3, <1>4, InsertChange
<1>5. CASE (\E k \in KeyIds, enabled \in BOOLEAN : KeySetEnabled(k, enabled)) /\ Observe(FALSE)
  BY <1>2, <1>3, <1>5, EnableChange
<1>6. CASE (\E k \in KeyIds : KeyDelete(k)) /\ Observe(FALSE)
  BY <1>2, <1>3, <1>6, DeleteChange
<1>7. CASE \E k \in KeyIds, all \in BOOLEAN, names \in SUBSET VNames :
              KeySetAcl(k, all, names) /\ Observe(all)
  BY <1>2, <1>3, <1>7, AclChange
<1>8. QED BY <1>4, <1>5, <1>6, <1>7 DEF KeyHandler

\* What a step of one check must establish of it.
LEMMA CheckKeeps ==
    ASSUME KeyInv, UNCHANGED <<vars, keyTables>>, NEW c \in Callers,
           NEW q \in Claim \cup {NoClaim}, NEW h \in History,
           claim' = [claim EXCEPT ![c] = q], during' = [during EXCEPT ![c] = h],
           q # NoClaim => Sound(keys, acl, q, h) /\ (q.at = "list" => q.id \in KeyIds)
    PROVE  KeyInv'
<1> USE DEF KeyInv
<1>1. Types'
  <2>1. [Next]_vars OBVIOUS
  <2>2. QED BY <2>1, StepTypes
<1>2. claim \in [Callers -> Claim \cup {NoClaim}] /\ during \in [Callers -> History]
  BY DEF KeyTypeOK
<1>3. /\ claim'[c] = q /\ during'[c] = h
      /\ \A d \in Callers \ {c} : claim'[d] = claim[d] /\ during'[d] = during[d]
  BY <1>2
<1>4. claim' \in [Callers -> Claim \cup {NoClaim}] /\ during' \in [Callers -> History]
  BY <1>2
<1>5. \A d \in Callers : claim'[d] # NoClaim /\ claim'[d].at = "list" => claim'[d].id \in KeyIds
  BY <1>3 DEF KeyTypeOK
<1>6. KeyTypeOK' BY <1>4, <1>5 DEF KeyTypeOK
<1>7. keys' = keys /\ acl' = acl /\ vmodels' = vmodels /\ made' = made OBVIOUS
<1>8. RowsInv' BY <1>7 DEF RowsInv
<1>9. ListsRefer' BY <1>7 DEF ListsRefer, KeyExists
<1>10. ChecksInv' BY <1>3, <1>7 DEF ChecksInv
<1>11. QED BY <1>1, <1>6, <1>8, <1>9, <1>10

LEMMA PresentStep ==
    ASSUME KeyInv, UNCHANGED <<vars, keyTables>>, NEW c \in Callers,
           NEW s \in Secrets, NEW v \in VNames, Present(c, s, v)
    PROVE  KeyInv'
<1> DEFINE q == [at |-> "key", secret |-> s, name |-> v, id |-> 0]
           verdict == Allowed(keys, acl, s, v)
           h == [verdicts |-> {verdict}, changes |-> 0, opened |-> FALSE]
<1>1. claim' = [claim EXCEPT ![c] = q] /\ during' = [during EXCEPT ![c] = h] BY DEF Present
<1>2. verdict \in BOOLEAN BY DEF Allowed
<1>3. q \in Claim BY DEF Claim
<1>4. /\ q.at = "key" /\ q.secret = s /\ q.name = v OBVIOUS
<1>5. h.verdicts = {verdict} OBVIOUS
<1>6. h \in History
  <2> HIDE DEF verdict
  <2>1. {verdict} \in SUBSET BOOLEAN /\ 0 \in 0 .. 2 /\ FALSE \in BOOLEAN BY <1>2
  <2>2. QED BY <2>1 DEF History
<1>7. IF Allowed(keys, acl, q.secret, q.name) THEN TRUE \in h.verdicts ELSE FALSE \in h.verdicts
  BY <1>2, <1>4, <1>5
<1> HIDE DEF q, h, verdict
<1>8. Sound(keys, acl, q, h) BY <1>4, <1>7 DEF Sound
<1>9. QED BY <1>1, <1>3, <1>4, <1>6, <1>8, CheckKeeps

\* A check under way, and what its next answer rests on.
LEMMA Underway ==
    ASSUME KeyInv, NEW c \in Callers, Checking(c)
    PROVE  /\ claim[c] # NoClaim /\ claim[c] \in Claim
           /\ during[c] \in History /\ Sound(keys, acl, claim[c], during[c])
           /\ during = [during EXCEPT ![c] = during[c]]
           /\ claim[c].at = "list" => claim[c].id \in KeyIds
BY DEF KeyInv, KeyTypeOK, ChecksInv, Checking

\* The answer that a check carries.
LEMMA AnswerFields ==
    ASSUME NEW old \in Claim, NEW outcome \in {"key", "list", "admitted", "refused"},
           NEW id \in KeyIds \cup {0}, NEW q,
           q = [at |-> outcome, secret |-> old.secret, name |-> old.name, id |-> id]
    PROVE  /\ q \in Claim
           /\ q.at = outcome /\ q.secret = old.secret /\ q.name = old.name /\ q.id = id
BY DEF Claim

LEMMA RefuseStep ==
    ASSUME KeyInv, UNCHANGED <<vars, keyTables>>, NEW c \in Callers, RefuseKey(c)
    PROVE  KeyInv'
<1>1. Checking(c) /\ claim[c].at = "key" BY DEF RefuseKey
<1> DEFINE old == claim[c]
           h == during[c]
           q == [at |-> "refused", secret |-> old.secret, name |-> old.name, id |-> old.id]
<1>2. old \in Claim /\ h \in History /\ Sound(keys, acl, old, h)
      /\ during = [during EXCEPT ![c] = h]
  BY <1>1, Underway
<1>3. old.id \in KeyIds \cup {0} BY <1>2 DEF Claim
<1>4. claim' = [claim EXCEPT ![c] = q] /\ during' = during BY DEF RefuseKey, Answer
<1>5. ~Allowed(keys, acl, old.secret, old.name) BY DEF RefuseKey, Allowed, KeyExists
<1> HIDE DEF old, h
<1>6. q \in Claim /\ q.at = "refused" BY <1>2, <1>3, AnswerFields
<1>7. FALSE \in h.verdicts
  <2>1. old.at = "key" BY <1>1 DEF old
  <2>2. QED BY <1>2, <1>5, <2>1 DEF Sound
<1> HIDE DEF q
<1>8. Sound(keys, acl, q, h) BY <1>6, <1>7 DEF Sound
<1>9. QED BY <1>2, <1>4, <1>6, <1>8, CheckKeeps

LEMMA LookUpKeyStep ==
    ASSUME KeyInv, UNCHANGED <<vars, keyTables>>, NEW c \in Callers, LookUpKey(c)
    PROVE  KeyInv'
<1>1. Checking(c) /\ claim[c].at = "key" BY DEF LookUpKey
<1> DEFINE old == claim[c]
           h == during[c]
<1>2. PICK k \in KeyIds :
         /\ KeyExists(k) /\ keys[k].secret = old.secret /\ keys[k].enabled
         /\ claim' = [claim EXCEPT ![c] =
                [at |-> IF keys[k].all THEN "admitted" ELSE "list",
                 secret |-> old.secret, name |-> old.name, id |-> k]]
  BY DEF LookUpKey
<1> DEFINE outcome == IF keys[k].all THEN "admitted" ELSE "list"
           q == [at |-> outcome, secret |-> old.secret, name |-> old.name, id |-> k]
<1>3. old \in Claim /\ h \in History /\ Sound(keys, acl, old, h)
      /\ during = [during EXCEPT ![c] = h] /\ old.at = "key"
  BY <1>1, Underway
<1>4. claim' = [claim EXCEPT ![c] = q] /\ during' = during BY <1>2 DEF LookUpKey
<1>5. Own(keys, k, old.secret) BY <1>2 DEF Own, KeyExists
<1>6. outcome \in {"admitted", "list"} /\ (outcome = "admitted" => keys[k].all)
      /\ (outcome = "list" => ~keys[k].all)
  OBVIOUS
<1> HIDE DEF old, h, outcome
<1>7. q \in Claim /\ q.at = outcome /\ q.secret = old.secret /\ q.name = old.name /\ q.id = k
  BY <1>3, <1>6, AnswerFields
<1> HIDE DEF q
<1>8. IF Allowed(keys, acl, q.secret, q.name) THEN TRUE \in h.verdicts ELSE FALSE \in h.verdicts
  BY <1>3, <1>7 DEF Sound
<1>9. keys[k].all => Allowed(keys, acl, q.secret, q.name)
  BY <1>5, <1>7 DEF Own, Allowed
<1>10. q.name \in acl[k] => Allowed(keys, acl, q.secret, q.name)
  BY <1>5, <1>7 DEF Own, Allowed
<1>11. Sound(keys, acl, q, h) BY <1>5, <1>6, <1>7, <1>8, <1>9, <1>10 DEF Sound
<1>12. QED BY <1>3, <1>4, <1>7, <1>11, CheckKeeps

LEMMA LookUpListStep ==
    ASSUME KeyInv, UNCHANGED <<vars, keyTables>>, NEW c \in Callers, LookUpList(c)
    PROVE  KeyInv'
<1>1. Checking(c) /\ claim[c].at = "list" BY DEF LookUpList
<1> DEFINE old == claim[c]
           h == during[c]
           outcome == IF old.name \in acl[old.id] THEN "admitted" ELSE "refused"
           q == [at |-> outcome, secret |-> old.secret, name |-> old.name, id |-> old.id]
<1>2. old \in Claim /\ h \in History /\ Sound(keys, acl, old, h) /\ old.id \in KeyIds
      /\ during = [during EXCEPT ![c] = h] /\ old.at = "list"
  BY <1>1, Underway
<1>3. claim' = [claim EXCEPT ![c] = q] /\ during' = during BY DEF LookUpList, Answer
<1>4. /\ outcome \in {"admitted", "refused"}
      /\ outcome = "admitted" => old.name \in acl[old.id]
      /\ outcome = "refused" => old.name \notin acl[old.id]
  OBVIOUS
<1> HIDE DEF old, h, outcome
<1>5. q \in Claim /\ q.at = outcome /\ q.secret = old.secret /\ q.name = old.name
  BY <1>2, <1>4, AnswerFields
<1> HIDE DEF q
<1>6. h.changes \in 0 .. 2 BY <1>2 DEF History
<1>7. ASSUME outcome = "admitted", TRUE \notin h.verdicts PROVE h.changes = 2
  <2>1. h.changes \notin {0, 1} BY <1>2, <1>4, <1>7 DEF Sound
  <2>2. QED BY <1>6, <2>1
<1>8. ASSUME outcome = "refused", FALSE \notin h.verdicts PROVE h.opened
  <2>1. Allowed(keys, acl, old.secret, old.name) BY <1>2, <1>8 DEF Sound
  <2>2. PICK k \in KeyIds :
           /\ keys[k] # NoKeyRow /\ keys[k].secret = old.secret /\ keys[k].enabled
           /\ keys[k].all \/ old.name \in acl[k]
    BY <2>1 DEF Allowed
  <2>3. ASSUME ~h.opened PROVE FALSE
    <3>1. Own(keys, old.id, old.secret) /\ ~keys[old.id].all BY <1>2, <1>8, <2>3 DEF Sound
    <3>2. k = old.id BY <1>2, <2>2, <3>1 DEF KeyInv, RowsInv, Unique, Own
    <3>3. QED BY <1>4, <1>8, <2>2, <3>1, <3>2
  <2>4. QED BY <2>3
<1>9. Sound(keys, acl, q, h) BY <1>4, <1>5, <1>7, <1>8 DEF Sound
<1>10. QED BY <1>2, <1>3, <1>4, <1>5, <1>9, CheckKeeps

LEMMA LeaveStep ==
    ASSUME KeyInv, UNCHANGED <<vars, keyTables>>, NEW c \in Callers, Leave(c)
    PROVE  KeyInv'
<1>1. NoHistory \in History
  <2>1. {} \in SUBSET BOOLEAN /\ 0 \in 0 .. 2 /\ FALSE \in BOOLEAN OBVIOUS
  <2>2. QED BY <2>1 DEF NoHistory, History
<1>2. claim' = [claim EXCEPT ![c] = NoClaim] /\ during' = [during EXCEPT ![c] = NoHistory]
  BY DEF Leave
<1>3. QED BY <1>1, <1>2, CheckKeeps

LEMMA StepKeyInv == ASSUME KeyInv, [KeyNext]_allVars PROVE KeyInv'
<1>1. CASE Next /\ Cascade /\ UNCHANGED <<keys, made, claim>> /\ Observe(FALSE)
  BY <1>1, CascadeStep
<1>2. CASE KeyHandler /\ UNCHANGED <<vars, claim>> BY <1>2, HandlerStep
<1>3. ASSUME NEW c \in Callers, Check(c), UNCHANGED <<vars, keyTables>>
      PROVE  KeyInv'
  BY <1>3, PresentStep, RefuseStep, LookUpKeyStep, LookUpListStep, LeaveStep DEF Check
<1>4. CASE UNCHANGED allVars
  <2>1. [Next]_vars BY <1>4
  <2>2. Types' BY <2>1, StepTypes DEF KeyInv
  <2>3. QED BY <1>4, <2>2 DEF KeyInv, KeyTypeOK, RowsInv, ListsRefer, KeyExists, ChecksInv
<1>5. QED BY <1>1, <1>2, <1>3, <1>4 DEF KeyNext

LEMMA KeyInvAlways == KeySpec => []KeyInv
BY InitKeyInv, StepKeyInv, PTL DEF KeySpec

-----------------------------------------------------------------------------
(* The theorems *)

\* Keys, lists and checks keep their types.
THEOREM KeyTypeCorrect == KeySpec => []KeyTypeOK
<1>1. KeyInv => KeyTypeOK BY DEF KeyInv
<1>2. QED BY <1>1, KeyInvAlways, PTL

\* An allow list never has a row of a key or of a virtual model that is gone,
\* whatever is deleted and made again beside it.
THEOREM ListsReferAlways == KeySpec => []ListsRefer
<1>1. KeyInv => ListsRefer BY DEF KeyInv
<1>2. QED BY <1>1, KeyInvAlways, PTL

\* However many edits fall into a check of a key, its answer is the rule's at
\* some moment of the check, except in the two cases AnsweredForCause names.
THEOREM AnsweredForCauseAlways == KeySpec => []AnsweredForCause
<1>1. KeyInv => AnsweredForCause
  BY DEF KeyInv, ChecksInv, AnsweredForCause, AdmittedForCause, RefusedForCause, Sound
<1>2. QED BY <1>1, KeyInvAlways, PTL

\* The editors of virtual models take no caller's permission away but by a
\* delete.
THEOREM CallersKeptAlways == KeySpec => CallersKept
<1> DEFINE Kept == \A k \in KeyIds : \A v \in acl[k] :
                      vmodels' # vmodels /\ vmodels'[v] # NoRow => v \in acl'[k]
<1>1. ASSUME KeyInv, [KeyNext]_allVars PROVE [Kept]_allVars
  <2>1. CASE Next /\ Cascade
    <3>1. acl \in [KeyIds -> SUBSET VNames] BY <1>1 DEF KeyInv, KeyTypeOK
    <3>2. QED BY <2>1, <3>1 DEF Cascade
  <2>2. CASE UNCHANGED vars BY <2>2
  <2>3. QED BY <1>1, <2>1, <2>2 DEF KeyNext
<1>2. QED BY <1>1, KeyInvAlways, PTL DEF KeySpec, CallersKept

\* Beside the callers and their keys the operator's handlers are those of
\* AdminModels, so whatever is proved of them holds here as well ...
THEOREM KeysRefineAdmin == KeySpec => Spec
<1>1. KeyInit => Init BY DEF KeyInit
<1>2. [KeyNext]_allVars => [Next]_vars BY DEF KeyNext
<1>3. QED BY <1>1, <1>2, PTL DEF KeySpec, Spec

\* ... such as that a virtual model names members that exist.
THEOREM MembersExistBesideKeys == KeySpec => []MembersExist
BY KeysRefineAdmin, MembersExistForAll, PTL
=============================================================================
