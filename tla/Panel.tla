------------------------------- MODULE Panel -------------------------------
(***************************************************************************)
(* The panel strategies, synthesize (strategy/synthesize.rs) and best-of-n *)
(* (strategy/best_of_n.rs): every member is called concurrently, and once  *)
(* all calls have been answered, in whatever order, a judge is called on   *)
(* the answers.                                                            *)
(***************************************************************************)
EXTENDS RequestCore

Replies == {"text", "blank", "error"}

BeginPanel(r) ==
    /\ cfg[r].strategy \in PanelStrategies
    /\ Goto(r, "dispatch", IF cfg[r].judge = NoJudge THEN "failed" ELSE "panel")
    /\ waiting' = [waiting EXCEPT ![r] = DOMAIN Members(r)]
    /\ answers' = [answers EXCEPT ![r] = {}]
    /\ UNCHANGED <<dispatchVars, idx, tools, callVars, streamVars, writeVars,
                   ledgerVars, client, envVars>>

\* One of the calls that join_all polls is answered.
MemberReplies(r, i, reply) ==
    /\ pc[r] = "panel"
    /\ i \in waiting[r]
    /\ CallMember(r, Members(r)[i], "member", IF reply = "error" THEN "failed" ELSE "ok")
    /\ waiting' = [waiting EXCEPT ![r] = @ \ {i}]
    /\ answers' = [answers EXCEPT ![r] = IF reply = "text" THEN @ \cup {i} ELSE @]
    /\ UNCHANGED <<pc, dispatchVars, idx, tools, streamVars, writeVars, ledgerVars,
                   client, envVars>>

\* Fewer answers than members and than min_answers; only synthesize's strict
\* mode stops on it.
StrictStop(r) ==
    /\ cfg[r].strategy = "synthesize" /\ cfg[r].strict
    /\ Cardinality(answers[r]) < Len(Members(r))
    /\ Cardinality(answers[r]) < cfg[r].min

\* Mutant of PanelDecides: the judge is called on the first answer.
PanelDecidesEarly(r) ==
    /\ \/ /\ answers[r] # {}
          /\ Goto(r, "panel", "judge")
       \/ waiting[r] = {} /\ Goto(r, "panel", "failed")
    /\ UNCHANGED <<dispatchVars, strategyVars, callVars, streamVars, writeVars,
                   ledgerVars, client, envVars>>

\* join_all is complete; the judge's model is resolved only now, and may
\* turn out not to be callable.
PanelDecides(r) ==
    /\ waiting[r] = {}
    /\ \/ /\ answers[r] # {} /\ ~StrictStop(r)
          /\ Goto(r, "panel", "judge")
       \/ Goto(r, "panel", "failed")
    /\ UNCHANGED <<dispatchVars, strategyVars, callVars, streamVars, writeVars,
                   ledgerVars, client, envVars>>

\* Mutant of JudgeReplies: `?` leaves before the judge's call is recorded.
JudgeFailureUnrecorded(r, status) ==
    /\ Goto(r, "judge", Outcome(status))
    /\ IF status = "ok"
         THEN CallMember(r, cfg[r].judge, "judge", status)
         ELSE Answered(r, cfg[r].judge, "judge", "complete", status) /\ UNCHANGED recorder
    /\ UNCHANGED <<dispatchVars, strategyVars, streamVars, writeVars, ledgerVars,
                   client, envVars>>

JudgeReplies(r, status) ==
    /\ Goto(r, "judge", Outcome(status))
    /\ CallMember(r, cfg[r].judge, "judge", status)
    /\ UNCHANGED <<dispatchVars, strategyVars, streamVars, writeVars, ledgerVars,
                   client, envVars>>

PanelReply(r) ==
    \/ \E i \in DOMAIN Members(r), reply \in Replies : MemberReplies(r, i, reply)
    \/ \E status \in Statuses : JudgeReplies(r, status)
=============================================================================
