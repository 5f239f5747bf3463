---------------------------- MODULE PriceRefresh ----------------------------
(***************************************************************************)
(* The snapshot of default prices (price_defaults) and the task that       *)
(* replaces it every day (price_refresh.rs, prices_litellm.rs,             *)
(* db/prices.rs).  A document is known by its age: 0 is an empty table, 1  *)
(* the document compiled into the program, and each one published later    *)
(* has the next number.                                                    *)
(***************************************************************************)
EXTENDS Naturals

CONSTANT MaxDocument    \* bound: documents published

ASSUME RefreshAssumption == MaxDocument \in Nat \ {0}

VARIABLES
    published,      \* the document that the provider offers
    defaults,       \* the document that price_defaults was made from
    refresher,      \* "off", "select", "fetch", "replace"; "exited"
    document        \* the one fetched and parsed, 0 for none

refreshVars == <<published, defaults, refresher, document>>

Documents == 0 .. MaxDocument

RefreshTypeOK ==
    /\ published \in Documents \ {0}
    /\ defaults \in Documents
    /\ refresher \in {"off", "select", "fetch", "replace", "exited"}
    /\ document \in Documents /\ (document # 0 <=> refresher = "replace")

RefreshInit ==
    /\ published = 1
    /\ defaults = 0
    /\ refresher = "off"
    /\ document = 0

\* defaults_replace_all: one transaction, which a crash undoes as a whole.
ReplaceAll(d) == defaults' = d

-----------------------------------------------------------------------------
\* The first tick comes at once, the others day by day.
RefreshTick ==
    /\ refresher = "select"
    /\ refresher' = "fetch"
    /\ UNCHANGED <<published, defaults, document>>

\* Mutant of FetchFails: the error ends the task.
FetchFailsExits ==
    /\ refresher = "fetch"
    /\ refresher' = "exited"
    /\ UNCHANGED <<published, defaults, document>>

\* An error, a status that is none of success, a body that is too large or
\* is not parsed, and one in which no model has a price: what there is stays.
FetchFails ==
    /\ refresher = "fetch"
    /\ refresher' = "select"
    /\ UNCHANGED <<published, defaults, document>>

Fetched ==
    /\ refresher = "fetch"
    /\ refresher' = "replace"
    /\ document' = published
    /\ UNCHANGED <<published, defaults>>

Replace ==
    /\ refresher = "replace"
    /\ ReplaceAll(document)
    /\ refresher' = "select" /\ document' = 0
    /\ UNCHANGED published

\* The transaction fails: the next tick tries again.
ReplaceFails ==
    /\ refresher = "replace"
    /\ refresher' = "select" /\ document' = 0
    /\ UNCHANGED <<published, defaults>>

\* Mutant of RefresherExits: the branch of select! does not break the loop.
RefresherStays ==
    /\ refresher = "select"
    /\ UNCHANGED refreshVars

RefresherExits ==
    /\ refresher = "select"
    /\ refresher' = "exited"
    /\ UNCHANGED <<published, defaults, document>>

Publish ==
    /\ published < MaxDocument
    /\ published' = published + 1
    /\ UNCHANGED <<defaults, refresher, document>>

Refresh == FetchFails \/ Fetched \/ Replace \/ ReplaceFails
=============================================================================
