--------------------------- MODULE KeyProperties ---------------------------
(***************************************************************************)
(* Who may call what: design, section 5.2, and the comment that states the *)
(* rules of key_authorize.                                                 *)
(***************************************************************************)
EXTENDS KeyAcl, AdminProperties

\* A row of the allow list belongs to a key and to a virtual model that are
\* there.  Ids of keys and names of virtual models are used again, so a row
\* left behind would open a new virtual model to an old key, or give a new
\* key an old key's list (the cascades of key_delete and vmodel_delete).
ListsRefer ==
    \A k \in KeyIds, v \in VNames : v \in acl[k] => KeyExists(k) /\ vmodels[v] # NoRow

\* What is allowed is taken away only by an edit of the key or by deleting
\* the virtual model: saving a virtual model again, with whatever members,
\* leaves its callers alone (vmodel_upsert updates in place).
CallersKept ==
    [][\A k \in KeyIds : \A v \in acl[k] :
          vmodels' # vmodels /\ vmodels'[v] # NoRow => v \in acl'[k]]_allVars

\* A call is let in only if its key was allowed at some moment of the check,
\* unless two edits or more fell between the two queries: then the answer
\* may belong to no moment, and even to another key that has got the id of
\* the one that was found (key_authorize).
AdmittedForCause ==
    \A c \in Callers : claim[c] # NoClaim /\ claim[c].at = "admitted" =>
        TRUE \in during[c].verdicts \/ during[c].changes = 2

\* A call is turned away only if its key was not allowed at some moment of
\* the check; the exception is a key that is opened to all virtual models
\* just then, whose list is already empty when it is read (key_authorize
\* against key_set_acl).
RefusedForCause ==
    \A c \in Callers : claim[c] # NoClaim /\ claim[c].at = "refused" =>
        FALSE \in during[c].verdicts \/ during[c].opened

\* So a check answers by the rule of some moment between its two queries, with
\* the two exceptions above and no other (key_authorize).
AnsweredForCause == AdmittedForCause /\ RefusedForCause
=============================================================================
