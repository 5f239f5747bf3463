------------------------------ MODULE Registry ------------------------------
(***************************************************************************)
(* The tables an operator edits (db/schema.rs) and the statements on them  *)
(* (db/models.rs, prices.rs, virtual_models.rs).  A statement, or a        *)
(* transaction, is one step: SQLite has one writer.  Foreign keys are on   *)
(* (db/mod.rs, apply_pragmas): a statement that would violate one, or a    *)
(* primary key, changes nothing and fails; here it is not enabled, and     *)
(* each handler may fail at any statement anyway.  prices has no foreign   *)
(* key, and the models named in params have none either.                   *)
(***************************************************************************)
EXTENDS Naturals, Sequences, Functions

CONSTANTS
    ModelIds,       \* ids of models
    Addresses,      \* what connector, base_url and model say: where and how a model is called
    ApiKeys,        \* encrypted keys of providers
    NoKey,          \* no key in a row or in a body
    Limits,         \* what extra.default_max_tokens may be
    NoLimit,        \* no default_max_tokens
    VNames,         \* names of virtual models
    NoRow           \* the row does not exist

ModelRow  == [address : Addresses, key : ApiKeys \cup {NoKey}, limit : Limits \cup {NoLimit}]

\* Who set the price of a model; the prices themselves are left out.
PriceRow == {"hand", "default"}

\* routes are the models named in params: judge, web_search and the others.
VModelRow == [members : Seq(ModelIds), routes : Seq(ModelIds)]

ASSUME RegistryAssumption == NoRow \notin ModelRow \cup PriceRow \cup VModelRow

VARIABLES
    models,     \* models
    prices,     \* prices
    vmodels     \* virtual_models and virtual_model_members

tables == <<models, prices, vmodels>>

TablesTypeOK ==
    /\ models \in [ModelIds -> ModelRow \cup {NoRow}]
    /\ prices \in [ModelIds -> PriceRow \cup {NoRow}]
    /\ vmodels \in [VNames -> VModelRow \cup {NoRow}]

EmptyTables ==
    /\ models = [m \in ModelIds |-> NoRow]
    /\ prices = [m \in ModelIds |-> NoRow]
    /\ vmodels = [v \in VNames |-> NoRow]

ModelExists(m) == models[m] # NoRow

\* A row of virtual_model_members, or params of v, references m.
MemberOf(m, v) == vmodels[v] # NoRow /\ m \in Range(vmodels[v].members)
RoutedBy(m, v) == vmodels[v] # NoRow /\ m \in Range(vmodels[v].routes)

ModelUpsert(m, row) ==
    /\ models' = [models EXCEPT ![m] = row]
    /\ UNCHANGED <<prices, vmodels>>

PriceUpsert(m, price) ==
    /\ prices' = [prices EXCEPT ![m] = price]
    /\ UNCHANGED <<models, vmodels>>

\* Mutant of ModelDeleteCascade: foreign keys are off on this connection.
ModelDeleteUnchecked(m) ==
    /\ models' = [models EXCEPT ![m] = NoRow]
    /\ prices' = [prices EXCEPT ![m] = NoRow]
    /\ UNCHANGED vmodels

\* One transaction; a member row that references m makes it fail.
ModelDeleteCascade(m) ==
    /\ \A v \in VNames : ~MemberOf(m, v)
    /\ models' = [models EXCEPT ![m] = NoRow]
    /\ prices' = [prices EXCEPT ![m] = NoRow]
    /\ UNCHANGED vmodels

\* One transaction: every member references a model, and none is there twice.
VModelUpsert(v, row) ==
    /\ \A m \in Range(row.members) : ModelExists(m)
    /\ IsInjective(row.members)
    /\ vmodels' = [vmodels EXCEPT ![v] = row]
    /\ UNCHANGED <<models, prices>>

\* The members of v go with it.
VModelDelete(v) ==
    /\ vmodels' = [vmodels EXCEPT ![v] = NoRow]
    /\ UNCHANGED <<models, prices>>
=============================================================================
