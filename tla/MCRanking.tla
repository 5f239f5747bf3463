----------------------------- MODULE MCRanking -----------------------------
(* A small instance of Ranking: a model is a member once (the primary key of
   virtual_model_members), so three members are three models. *)
EXTENDS Ranking

CONSTANTS m1, m2, m3

ThreeMembers == <<m1, m2, m3>>
=============================================================================
