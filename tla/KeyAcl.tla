------------------------------- MODULE KeyAcl -------------------------------
(***************************************************************************)
(* The keys of the gateway's callers: the tables ingress_keys and          *)
(* ingress_key_acl (db/keys.rs), the handlers of admin/api.rs that edit    *)
(* them, and the check of a request's key (auth.rs, key_authorize), which  *)
(* reads the two tables in two queries.  All of it runs beside the         *)
(* handlers of AdminModels, whose virtual models the lists refer to with   *)
(* foreign keys that cascade.                                              *)
(*                                                                         *)
(* Authorisation of the operator comes before each handler's statement and *)
(* is left out, and so are labels and times.  A plaintext is random and    *)
(* only its hash is stored: Secrets are values of which none is made twice.*)
(***************************************************************************)
EXTENDS AdminModels

CONSTANTS
    Secrets,        \* plaintexts of keys, made or made up
    MaxKeyId,       \* bound: rowids of ingress_keys
    Callers         \* requests that may be checked at once

KeyIds == 1 .. MaxKeyId
KeyRow == [secret : Secrets, enabled : BOOLEAN, all : BOOLEAN]

ASSUME KeyAssumption == MaxKeyId \in Nat /\ NoRow \notin KeyRow

NoClaim == [at |-> "idle"]
Claim   == [at : {"key", "list", "admitted", "refused"}, secret : Secrets,
            name : VNames, id : KeyIds \cup {0}]

NoHistory == [verdicts |-> {}, changes |-> 0, opened |-> FALSE]
History   == [verdicts : SUBSET BOOLEAN, changes : 0 .. 2, opened : BOOLEAN]

VARIABLES
    keys,       \* ingress_keys, by id
    acl,        \* ingress_key_acl: the virtual models listed for each key
    made,       \* history: plaintexts handed out
    claim,      \* the check of each caller's key, and its answer
    during      \* history, while a check runs: what its answer would have been at each
                \* moment, changes of the tables (counted up to 2), and whether one
                \* opened a key to all virtual models

keyTables == <<keys, acl, made>>
keyVars   == <<keyTables, claim, during>>
allVars   == <<vars, keyVars>>

NoKeyRow == NoRow

KeyTypeOK ==
    /\ keys \in [KeyIds -> KeyRow \cup {NoKeyRow}]
    /\ acl \in [KeyIds -> SUBSET VNames]
    /\ made \subseteq Secrets
    /\ claim \in [Callers -> Claim \cup {NoClaim}]
    /\ \A c \in Callers : claim[c] # NoClaim /\ claim[c].at = "list" => claim[c].id \in KeyIds
    /\ during \in [Callers -> History]

KeyInit ==
    /\ Init
    /\ keys = [k \in KeyIds |-> NoKeyRow]
    /\ acl = [k \in KeyIds |-> {}]
    /\ made = {}
    /\ claim = [c \in Callers |-> NoClaim]
    /\ during = [c \in Callers |-> NoHistory]

-----------------------------------------------------------------------------
\* The rule that key_authorize states, on one state of the tables.
Allowed(rows, lists, secret, name) ==
    \E k \in KeyIds :
        /\ rows[k] # NoKeyRow /\ rows[k].secret = secret /\ rows[k].enabled
        /\ rows[k].all \/ name \in lists[k]

Checking(c) == claim[c] # NoClaim /\ claim[c].at \in {"key", "list"}

\* History: every check under way sees the step that is taken.  How often the
\* tables changed is of interest only as long as the answer was always no,
\* and an opening only as long as it was always yes.
Witnessed(h, verdict, opens) ==
    LET verdicts == h.verdicts \cup {verdict}
    IN  [verdicts |-> verdicts,
         changes  |-> IF TRUE \in verdicts THEN 0
                      ELSE IF <<keys', acl'>> # <<keys, acl>> /\ h.changes < 2
                           THEN h.changes + 1 ELSE h.changes,
         opened   |-> FALSE \notin verdicts /\ (h.opened \/ opens)]

Observe(opens) ==
    during' = [c \in Callers |->
        IF Checking(c)
        THEN Witnessed(during[c], Allowed(keys', acl', claim[c].secret, claim[c].name), opens)
        ELSE during[c]]

-----------------------------------------------------------------------------
(* The handlers of keys; a statement about a row that is gone does nothing *)

KeyExists(k) == keys[k] # NoKeyRow

\* INTEGER PRIMARY KEY: the largest id there is and one, so that the id of
\* a deleted row comes back.
NextKeyId(k) ==
    /\ \A i \in KeyIds : KeyExists(i) => i < k
    /\ k > 1 => KeyExists(k - 1)

KeyInsert(k, s) ==
    /\ NextKeyId(k) /\ s \notin made
    /\ keys' = [keys EXCEPT ![k] = [secret |-> s, enabled |-> TRUE, all |-> FALSE]]
    /\ made' = made \cup {s}
    /\ UNCHANGED acl

\* A body without `enabled` enables the key.
KeySetEnabled(k, enabled) ==
    /\ KeyExists(k)
    /\ keys' = [keys EXCEPT ![k] =
           [secret |-> keys[k].secret, enabled |-> enabled, all |-> keys[k].all]]
    /\ UNCHANGED <<acl, made>>

\* Mutant of KeyDelete: foreign keys are off on this connection.
KeyDeleteAlone(k) ==
    /\ keys' = [keys EXCEPT ![k] = NoKeyRow]
    /\ UNCHANGED <<acl, made>>

KeyDelete(k) ==
    /\ keys' = [keys EXCEPT ![k] = NoKeyRow]
    /\ acl' = [acl EXCEPT ![k] = {}]
    /\ UNCHANGED made

\* One transaction, which a name that is no virtual model makes fail.
KeySetAcl(k, all, names) ==
    /\ KeyExists(k)
    /\ \A v \in names : vmodels[v] # NoRow
    /\ keys' = [keys EXCEPT ![k] =
           [secret |-> keys[k].secret, enabled |-> keys[k].enabled, all |-> all]]
    /\ acl' = [acl EXCEPT ![k] = names]
    /\ UNCHANGED made

KeyHandler ==
    \/ (\E k \in KeyIds, s \in Secrets : KeyInsert(k, s)) /\ Observe(FALSE)
    \/ (\E k \in KeyIds, enabled \in BOOLEAN : KeySetEnabled(k, enabled)) /\ Observe(FALSE)
    \/ (\E k \in KeyIds : KeyDelete(k)) /\ Observe(FALSE)
    \/ \E k \in KeyIds, all \in BOOLEAN, names \in SUBSET VNames :
          KeySetAcl(k, all, names) /\ Observe(all)

\* Mutant of Cascade: vmodel_upsert replaces the row, and the lists lose it.
CascadeOnReplace ==
    acl' = [k \in KeyIds |-> {v \in acl[k] : vmodels'[v] = vmodels[v]}]

\* A virtual model takes the rows that list it with it; one that is saved
\* again is updated in place and keeps them.
Cascade == acl' = [k \in KeyIds |-> {v \in acl[k] : vmodels'[v] # NoRow}]

-----------------------------------------------------------------------------
(* The check of a request's key: authorize_ingress and key_authorize *)

Present(c, s, v) ==
    /\ claim[c] = NoClaim
    /\ claim' = [claim EXCEPT ![c] = [at |-> "key", secret |-> s, name |-> v, id |-> 0]]
    /\ during' = [during EXCEPT ![c] =
           [verdicts |-> {Allowed(keys, acl, s, v)}, changes |-> 0, opened |-> FALSE]]

Answer(c, verdict) ==
    claim' = [claim EXCEPT ![c] =
        [at |-> verdict, secret |-> claim[c].secret, name |-> claim[c].name, id |-> claim[c].id]]

\* No row has the hash of the plaintext, or the row is not enabled.
RefuseKey(c) ==
    /\ Checking(c) /\ claim[c].at = "key"
    /\ ~\E k \in KeyIds : KeyExists(k) /\ keys[k].secret = claim[c].secret /\ keys[k].enabled
    /\ Answer(c, "refused")
    /\ UNCHANGED during

\* Mutant of LookUpKey: the id that was found is not carried on.
LookUpForgets(c) ==
    /\ Checking(c) /\ claim[c].at = "key"
    /\ \E k \in KeyIds :
          /\ KeyExists(k) /\ keys[k].secret = claim[c].secret /\ keys[k].enabled
          /\ Answer(c, IF keys[k].all THEN "admitted" ELSE "list")
    /\ UNCHANGED during

\* Mutant of LookUpKey: a disabled key is looked up like any other.
LookUpDisabled(c) ==
    /\ Checking(c) /\ claim[c].at = "key"
    /\ \E k \in KeyIds :
          /\ KeyExists(k) /\ keys[k].secret = claim[c].secret
          /\ claim' = [claim EXCEPT ![c] =
                 [at |-> IF keys[k].all THEN "admitted" ELSE "list",
                  secret |-> claim[c].secret, name |-> claim[c].name, id |-> k]]
    /\ UNCHANGED during

\* The first query; acl_all decides at once.
LookUpKey(c) ==
    /\ Checking(c) /\ claim[c].at = "key"
    /\ \E k \in KeyIds :
          /\ KeyExists(k) /\ keys[k].secret = claim[c].secret /\ keys[k].enabled
          /\ claim' = [claim EXCEPT ![c] =
                 [at |-> IF keys[k].all THEN "admitted" ELSE "list",
                  secret |-> claim[c].secret, name |-> claim[c].name, id |-> k]]
    /\ UNCHANGED during

\* Mutant of LookUpList: what is listed is refused.
LookUpListTurned(c) ==
    /\ Checking(c) /\ claim[c].at = "list"
    /\ Answer(c, IF acl[claim[c].id] = {} THEN "admitted" ELSE "refused")
    /\ UNCHANGED during

\* The second query, by the id that the first has found.
LookUpList(c) ==
    /\ Checking(c) /\ claim[c].at = "list"
    /\ Answer(c, IF claim[c].name \in acl[claim[c].id] THEN "admitted" ELSE "refused")
    /\ UNCHANGED during

\* handle() goes on, or has answered; a query failed, no key was sent, or
\* the caller is gone: the check leaves nothing behind.
Leave(c) ==
    /\ claim[c] # NoClaim
    /\ claim' = [claim EXCEPT ![c] = NoClaim]
    /\ during' = [during EXCEPT ![c] = NoHistory]

Check(c) ==
    \/ \E s \in Secrets, v \in VNames : Present(c, s, v)
    \/ RefuseKey(c) \/ LookUpKey(c) \/ LookUpList(c) \/ Leave(c)

-----------------------------------------------------------------------------
KeyNext ==
    \/ Next /\ Cascade /\ UNCHANGED <<keys, made, claim>> /\ Observe(FALSE)
    \/ KeyHandler /\ UNCHANGED <<vars, claim>>
    \/ (\E c \in Callers : Check(c)) /\ UNCHANGED <<vars, keyTables>>

KeySpec == KeyInit /\ [][KeyNext]_allVars
=============================================================================
