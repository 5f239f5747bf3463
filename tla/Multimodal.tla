----------------------------- MODULE Multimodal -----------------------------
(***************************************************************************)
(* The buffered tool loop (strategy/multimodal.rs): the first member is    *)
(* asked, the tool calls of its reply are handled one after the other,     *)
(* their results are appended to the request, and it is asked again, at    *)
(* most maxIter times.                                                     *)
(***************************************************************************)
EXTENDS RequestCore

BeginMultimodal(r) ==
    /\ cfg[r].strategy = "multimodal"
    /\ Goto(r, "dispatch",
            IF Members(r) = << >> \/ cfg[r].maxIter = 0 THEN "failed" ELSE "main")
    /\ idx' = [idx EXCEPT ![r] = 1]
    /\ UNCHANGED <<dispatchVars, waiting, answers, tools, callVars, streamVars,
                   writeVars, ledgerVars, client, envVars>>

\* The main model fails, answers without a tool call, or asks for n tools.
MainReplies(r, status, n) ==
    /\ \/ status = "failed" /\ n = 0 /\ Goto(r, "main", "failed")
       \/ status = "ok" /\ Goto(r, "main", IF n = 0 THEN "full" ELSE "tools")
    /\ CallMember(r, Members(r)[1], "member", status)
    /\ tools' = [tools EXCEPT ![r] = n]
    /\ UNCHANGED <<dispatchVars, idx, waiting, answers, streamVars, writeVars,
                   ledgerVars, client, envVars>>

\* Mutant of ToolHandled: leaves the loop one tool call too late.
ToolHandledLate(r, from) ==
    /\ tools' = [tools EXCEPT ![r] = @ - 1]
    /\ IF tools[r] >= 0
         THEN Goto(r, from, "tools") /\ UNCHANGED idx
         ELSE /\ Goto(r, from, IF idx[r] < cfg[r].maxIter THEN "main" ELSE "failed")
              /\ idx' = [idx EXCEPT ![r] = @ + 1]

\* A ToolResult has been appended: on to the next tool call, to the next
\* iteration, or out of iterations.
ToolHandled(r, from) ==
    /\ tools' = [tools EXCEPT ![r] = @ - 1]
    /\ IF tools[r] > 1
         THEN Goto(r, from, "tools") /\ UNCHANGED idx
         ELSE /\ Goto(r, from, IF idx[r] < cfg[r].maxIter THEN "main" ELSE "failed")
              /\ idx' = [idx EXCEPT ![r] = @ + 1]

\* No route in params: a placeholder text stands for the result.
UnroutedTool(r) ==
    /\ ToolHandled(r, "tools")
    /\ UNCHANGED <<dispatchVars, waiting, answers, callVars, streamVars, writeVars,
                   ledgerVars, client, envVars>>

\* A route in params: its model is resolved, and called or not callable.
RoutedTool(r) ==
    /\ \E next \in {"tool", "failed"} : Goto(r, "tools", next)
    /\ UNCHANGED <<dispatchVars, strategyVars, callVars, streamVars, writeVars,
                   ledgerVars, client, envVars>>

ToolReplies(r, backend, status) ==
    /\ \/ status = "ok" /\ ToolHandled(r, "tool")
       \/ status = "failed" /\ Goto(r, "tool", "failed") /\ UNCHANGED <<idx, tools>>
    /\ CallMember(r, backend, "tool", status)
    /\ UNCHANGED <<dispatchVars, waiting, answers, streamVars, writeVars, ledgerVars,
                   client, envVars>>

MultimodalReply(r) ==
    \/ \E status \in Statuses, n \in 0 .. MaxTools : MainReplies(r, status, n)
    \/ \E backend \in Models, status \in Statuses : ToolReplies(r, backend, status)
=============================================================================
