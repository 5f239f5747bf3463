-------------------------- MODULE ProbeProperties --------------------------
(* What speed may expect of the probe loop: design, section 7.2. *)
EXTENDS ProbeLoop

\* The background task probes every model without a recent sample, so that
\* one that answers gets samples at all.
EveryModelSampled ==
    \A m \in Answering : <>(m \in sampled \/ shutdown)
=============================================================================
