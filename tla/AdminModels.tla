---------------------------- MODULE AdminModels ----------------------------
(***************************************************************************)
(* The handlers of admin/api.rs that edit models, prices and virtual       *)
(* models, and the connectivity test, each as the statements it awaits:    *)
(* upsert_from_body, delete_model, update_prices, upsert_vmodel,           *)
(* delete_vmodel; test_one_model and test_all_models with probe_one.       *)
(* Handlers are not in a transaction.  Authorisation and the checks of a   *)
(* body that need no database come before the first statement: only bodies *)
(* that pass them are accepted here.                                       *)
(***************************************************************************)
EXTENDS Registry

CONSTANTS
    Editors,        \* handlers that may run at once
    Testers,        \* connectivity tests that may run at once
    MaxMembers,     \* bound: members in a body
    MaxRoutes       \* bound: models named in params

ASSUME AdminAssumption ==
    /\ Editors \cap Testers = {}
    /\ MaxMembers \in Nat /\ MaxRoutes \in Nat

VARIABLES
    at,         \* the statement a handler is about to execute
    job,        \* what it was asked to do
    asked,      \* upsert_vmodel: how many models it has found
    pending     \* a test's rows, as they were when it began, until each is probed

handlerVars == <<at, job, asked, pending>>
vars == <<tables, handlerVars>>

Lists(n) == UNION {[1 .. k -> ModelIds] : k \in 0 .. n}

EditJob   == [kind : {"edit"}, id : ModelIds, row : ModelRow, priced : BOOLEAN]
RemoveJob == [kind : {"remove"}, id : ModelIds]
PriceJob  == [kind : {"price"}, id : ModelIds]
SaveJob   == [kind : {"save"}, name : VNames,
              members : Lists(MaxMembers), routes : Lists(MaxRoutes)]
Job       == EditJob \cup RemoveJob \cup PriceJob \cup SaveJob
NoJob     == [kind |-> "none"]

EditPlaces   == {"keep", "write", "priced", "look", "match", "default"}
RemovePlaces == {"members", "routes", "delete"}
PricePlaces  == {"exists", "priced"}
SavePlaces   == {"ask", "save"}
Places       == {"idle"} \cup EditPlaces \cup RemovePlaces \cup PricePlaces \cup SavePlaces

NothingPending == [m \in ModelIds |-> NoRow]

\* The statements a handler awaits belong to what it was asked to do.
AtWork(e) ==
    \/ at[e] = "idle" /\ job[e] = NoJob
    \/ at[e] \in EditPlaces /\ job[e] \in EditJob
    \/ at[e] \in RemovePlaces /\ job[e] \in RemoveJob
    \/ at[e] \in PricePlaces /\ job[e] \in PriceJob
    \/ at[e] \in SavePlaces /\ job[e] \in SaveJob

HandlersTypeOK ==
    /\ at \in [Editors -> Places]
    /\ job \in [Editors -> Job \cup {NoJob}]
    /\ \A e \in Editors : AtWork(e)
    /\ asked \in [Editors -> 0 .. MaxMembers + MaxRoutes]
    /\ pending \in [Testers -> [ModelIds -> ModelRow \cup {NoRow}]]

AdminTypeOK == TablesTypeOK /\ HandlersTypeOK

Init ==
    /\ EmptyTables
    /\ at = [e \in Editors |-> "idle"]
    /\ job = [e \in Editors |-> NoJob]
    /\ asked = [e \in Editors |-> 0]
    /\ pending = [t \in Testers |-> NothingPending]

Goto(e, place) == at' = [at EXCEPT ![e] = place]

\* The handler returns, whatever its answer.
Return(e) ==
    /\ Goto(e, "idle")
    /\ job' = [job EXCEPT ![e] = NoJob]
    /\ asked' = [asked EXCEPT ![e] = 0]
    /\ UNCHANGED pending

\* The handler goes on to its next statement.
Continue(e, place) ==
    /\ Goto(e, place)
    /\ UNCHANGED <<job, asked, pending>>

FirstStatement(j) ==
    CASE j.kind = "edit"   -> IF j.row.key = NoKey THEN "keep" ELSE "write"
      [] j.kind = "remove" -> "members"
      [] j.kind = "price"  -> "exists"
      [] j.kind = "save"   -> IF j.members \o j.routes = <<>> THEN "save" ELSE "ask"

Accept(e, j) ==
    /\ at[e] = "idle"
    /\ Goto(e, FirstStatement(j))
    /\ job' = [job EXCEPT ![e] = j]
    /\ UNCHANGED <<tables, asked, pending>>

\* A statement fails, or the client leaves and the handler is dropped.
Abandon(e) ==
    /\ at[e] # "idle"
    /\ Return(e)
    /\ UNCHANGED tables

-----------------------------------------------------------------------------
\* upsert_from_body

\* A body without a key keeps the key of the row there is.
KeepKey(e) ==
    /\ at[e] = "keep"
    /\ Goto(e, "write")
    /\ job' = [job EXCEPT ![e].row.key =
           IF ModelExists(job[e].id) THEN models[job[e].id].key ELSE NoKey]
    /\ UNCHANGED <<tables, asked, pending>>

WriteModel(e) ==
    /\ at[e] = "write"
    /\ ModelUpsert(job[e].id, job[e].row)
    /\ Continue(e, IF job[e].priced THEN "priced" ELSE "look")

\* Mutant of LookForPrice: a price there is does not stop the default.
LookAtNoPrice(e) ==
    /\ at[e] = "look"
    /\ Continue(e, "match")
    /\ UNCHANGED tables

LookForPrice(e) ==
    /\ at[e] = "look"
    /\ IF prices[job[e].id] # NoRow THEN Return(e) ELSE Continue(e, "match")
    /\ UNCHANGED tables

\* The snapshot of default prices may match the model's name, or not.
MatchDefault(e) ==
    /\ at[e] = "match"
    /\ Continue(e, "default") \/ Return(e)
    /\ UNCHANGED tables

WriteDefault(e) ==
    /\ at[e] = "default"
    /\ PriceUpsert(job[e].id, "default")
    /\ Return(e)

\* The price in the body of upsert_from_body or of update_prices.
WritePrice(e) ==
    /\ at[e] = "priced"
    /\ PriceUpsert(job[e].id, "hand")
    /\ Return(e)

-----------------------------------------------------------------------------
\* delete_model and model_references

\* A model that is referenced stays; that the names are collected to the end
\* of params changes nothing.
MembersFree(e) ==
    /\ at[e] = "members"
    /\ IF \E v \in VNames : MemberOf(job[e].id, v) THEN Return(e) ELSE Continue(e, "routes")
    /\ UNCHANGED tables

\* Mutant of RoutesFree: the models named in params are not looked at.
RoutesUnread(e) ==
    /\ at[e] = "routes"
    /\ Continue(e, "delete")
    /\ UNCHANGED tables

RoutesFree(e) ==
    /\ at[e] = "routes"
    /\ IF \E v \in VNames : RoutedBy(job[e].id, v) THEN Return(e) ELSE Continue(e, "delete")
    /\ UNCHANGED tables

DeleteModel(e) ==
    /\ at[e] = "delete"
    /\ ModelDeleteCascade(job[e].id)
    /\ Return(e)

-----------------------------------------------------------------------------
\* update_prices, up to WritePrice

\* Mutant of ModelKnown: the price is written in any case.
ModelAssumed(e) ==
    /\ at[e] = "exists"
    /\ Continue(e, "priced")
    /\ UNCHANGED tables

ModelKnown(e) ==
    /\ at[e] = "exists"
    /\ IF ModelExists(job[e].id) THEN Continue(e, "priced") ELSE Return(e)
    /\ UNCHANGED tables

-----------------------------------------------------------------------------
\* upsert_vmodel and delete_vmodel

\* Members, then the models named in params, one query each.
Named(j) == j.members \o j.routes

AskNext(e) ==
    /\ at[e] = "ask"
    /\ IF ModelExists(Named(job[e])[asked[e] + 1])
       THEN /\ asked' = [asked EXCEPT ![e] = @ + 1]
            /\ Goto(e, IF asked[e] + 1 = Len(Named(job[e])) THEN "save" ELSE "ask")
            /\ UNCHANGED <<job, pending>>
       ELSE Return(e)
    /\ UNCHANGED tables

SaveVModel(e) ==
    /\ at[e] = "save"
    /\ VModelUpsert(job[e].name, [members |-> job[e].members, routes |-> job[e].routes])
    /\ Return(e)

\* A handler of one statement.
RemoveVModel(e, v) ==
    /\ at[e] = "idle"
    /\ VModelDelete(v)
    /\ UNCHANGED handlerVars

-----------------------------------------------------------------------------
\* test_one_model, test_all_models and probe_one

\* The rows to be tested are read once: one row, or all of them.
ReadRows(t, tested) ==
    /\ pending[t] = NothingPending
    /\ pending' = [pending EXCEPT ![t] = [m \in ModelIds |-> IF m \in tested THEN models[m] ELSE NoRow]]
    /\ UNCHANGED <<tables, at, job, asked>>

Probed(t, m) == pending' = [pending EXCEPT ![t][m] = NoRow]

\* No key, no candidate that answers, or nothing to correct: the rows stay.
\* So it does when the client leaves; then all probes of the test are dropped.
ProbeChangesNothing(t, m) ==
    /\ pending[t][m] # NoRow
    /\ Probed(t, m)
    /\ UNCHANGED <<tables, at, job, asked>>

DropTest(t) ==
    /\ pending[t] # NothingPending
    /\ pending' = [pending EXCEPT ![t] = NothingPending]
    /\ UNCHANGED <<tables, at, job, asked>>

\* The network answered at an address and accepted a limit, or stated none;
\* the row that was read is written back with the two replaced.
ProbeCorrects(t, m, address, limit) ==
    LET old == pending[t][m]
        row == [address |-> address, key |-> old.key,
                limit |-> IF limit = NoLimit THEN old.limit ELSE limit]
    IN  /\ old # NoRow
        /\ row # old
        /\ ModelUpsert(m, row)
        /\ Probed(t, m)
        /\ UNCHANGED <<at, job, asked>>

-----------------------------------------------------------------------------
Edit(e) == KeepKey(e) \/ WriteModel(e) \/ LookForPrice(e) \/ MatchDefault(e)
           \/ WriteDefault(e) \/ WritePrice(e)
Remove(e) == MembersFree(e) \/ RoutesFree(e) \/ DeleteModel(e)
Save(e) == AskNext(e) \/ SaveVModel(e) \/ \E v \in VNames : RemoveVModel(e, v)
Handler(e) ==
    \/ \E j \in Job : Accept(e, j)
    \/ Abandon(e)
    \/ Edit(e) \/ Remove(e) \/ ModelKnown(e) \/ Save(e)

Test(t) ==
    \/ \E m \in ModelIds : ReadRows(t, {m})
    \/ ReadRows(t, ModelIds)
    \/ DropTest(t)
    \/ \E m \in ModelIds : ProbeChangesNothing(t, m)
    \/ \E m \in ModelIds, address \in Addresses, limit \in Limits \cup {NoLimit} :
          ProbeCorrects(t, m, address, limit)

Next == (\E e \in Editors : Handler(e)) \/ (\E t \in Testers : Test(t))

Spec == Init /\ [][Next]_vars
=============================================================================
