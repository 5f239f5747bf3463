----------------------------- MODULE MCProcess -----------------------------
(* A small instance of Process. *)
EXTENDS ProcessProperties

\* The two columns that run_migrations adds.
PriceColumns == <<"cache_read", "cache_write">>
=============================================================================
