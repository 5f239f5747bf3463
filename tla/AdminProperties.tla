-------------------------- MODULE AdminProperties --------------------------
(***************************************************************************)
(* What an operator may rely on: design, sections 4, 6.3 and 13.2, and the *)
(* comments of admin/api.rs.                                               *)
(***************************************************************************)
EXTENDS AdminModels

\* One operator does one thing at a time.
OneEditor == \A d, e \in Editors : d = e

\* A stored virtual model never has a member that is gone, whichever
\* handlers overlap: dispatch would fail on it (vmodel_upsert and
\* model_delete_cascade against each other, held together by foreign keys).
MembersExist ==
    \A v \in VNames, m \in ModelIds : MemberOf(m, v) => ModelExists(m)

\* No price is left without its model, which would bill a later model of
\* the same id (prices has no foreign key: update_prices, upsert_from_body
\* and delete_model have to see to it).
NoOrphanPrice == \A m \in ModelIds : prices[m] # NoRow => ModelExists(m)

\* A judge or a tool's model that a virtual model names is there
\* (upsert_vmodel asks, model_references looks into params).
RoutesExist ==
    \A v \in VNames, m \in ModelIds : RoutedBy(m, v) => ModelExists(m)

\* A price set by hand is never replaced by a default; it goes only with
\* its model (upsert_from_body, "a repeat POST").
HandPriceKept ==
    [][\A m \in ModelIds : prices[m] = "hand" =>
          prices'[m] = "hand" \/ (prices'[m] = NoRow /\ ~ModelExists(m)')]_vars
=============================================================================
