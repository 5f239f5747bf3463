------------------------- MODULE ProcessProperties -------------------------
(***************************************************************************)
(* What must hold of the data base and of the two loops through any number *)
(* of starts, crashes and shutdowns.                                       *)
(***************************************************************************)
EXTENDS Process

\* A model that has samples, and whose provider answers, is never without a
\* recent one for good while a process runs: not for the failures of other
\* models, however many (probe_once goes on after each), nor for a round that
\* is dropped midway and begun by another process.  One thing stops it: a
\* provider that is probed and stays silent, behind which all the others wait
\* for as long as the process runs.
StaysFresh ==
    \A m \in Answering :
        m \in sampled => []<>(m \in fresh \/ pc = "exited") \/ <>[]Waiting

\* Each loop notices shutdown by itself, whether or not the runtime drops it:
\* what it is at is finished, then the signal is looked at (both select!s).
\* Only the probe loop is excused, if a provider holds it by staying silent.
LoopsEnd ==
    /\ shutdown ~> (phase # "returning" \/ refresher = "exited")
    /\ (shutdown ~> (phase # "returning" \/ pc = "exited")) \/ <>[]Waiting

\* The snapshot of default prices is never emptied again and never replaced by
\* an older one, neither by a failing refresh or a crash in the middle of one,
\* nor by the embedded document when a later process starts
\* (refresh_from_url, defaults_replace_all, seed_defaults_if_empty).
SnapshotKept == [][defaults' >= defaults]_allVars

\* A process that goes on running comes to the prices published last, however
\* many refreshes fail before (spawn_price_refresh_loop).
PricesFollow ==
    []<>(defaults = published \/ refresher = "off" \/ shutdown)

\* Every token that was printed opens the admin API, today and after any
\* restart; and a process that serves has one that was printed, unless one
\* before it ended between storing the hash and printing (ensure_initialized).
TokenKnown ==
    /\ shown \subseteq {token}
    /\ phase = "serving" => token \in shown \/ lost

\* Whatever provider key was stored by whatever process can be decrypted by
\* the one that serves, for the salt is made once (ensure_initialized); and the
\* prices have all their columns, though an earlier process may have ended
\* between two statements of the migration (run_migrations).
ServesWhole ==
    phase = "serving" =>
        /\ encKey # 0 /\ ciphers \subseteq {encKey}
        /\ columns = Range(Columns)
=============================================================================
