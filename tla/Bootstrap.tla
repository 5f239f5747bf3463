----------------------------- MODULE Bootstrap -----------------------------
(***************************************************************************)
(* What a process does to the data base before it serves, statement by     *)
(* statement (db/mod.rs, open and run_migrations; bootstrap.rs,            *)
(* ensure_initialized; main.rs), and what of it outlives the process: the  *)
(* columns, the salt from which the key of the stored provider keys is     *)
(* derived, and the hash of the operator's token.  Salts and tokens are    *)
(* random: none is made twice, so they are numbered.                       *)
(***************************************************************************)
EXTENDS Naturals, Sequences, Functions

CONSTANTS
    Columns,        \* what run_migrations adds to prices, in order
    MaxRandom       \* bound: salts and tokens made

ASSUME BootAssumption ==
    /\ Columns \in Seq(STRING) /\ IsInjective(Columns)
    /\ MaxRandom \in Nat

VARIABLES
    phase,          \* the statement the process comes to, "serving", "returning", "down"
    altered,        \* run_migrations: the columns it has been through
    encKey,         \* the salt that the key in memory is derived from, 0 for none
    unseen,         \* the token made and not yet printed, 0 for none
    columns,        \* data base: the columns that prices has
    salt,           \* data base: settings.enc_salt, 0 for none
    token,          \* data base: settings.admin_token_hash, 0 for none
    ciphers,        \* data base: salts that the stored provider keys are encrypted under
    shown,          \* history: tokens printed
    lost,           \* history: a process ended with its token made and not printed
    randoms         \* history: salts and tokens made

bootVars == <<phase, altered, encKey, unseen, columns, salt, token, ciphers, shown, lost, randoms>>

Starting == {"migrate", "salt", "token", "print", "binds", "seed", "plant", "listen"}

\* main has spawned the probe loop; it has both loops from "listen" on.
WithProbe     == {"seed", "plant", "listen", "serving", "returning"}
WithRefresher == {"listen", "serving", "returning"}

BootTypeOK ==
    /\ phase \in {"down", "serving", "returning"} \cup Starting
    /\ altered \in 0 .. Len(Columns)
    /\ encKey \in 0 .. MaxRandom /\ unseen \in 0 .. MaxRandom
    /\ columns \subseteq Range(Columns)
    /\ salt \in 0 .. MaxRandom /\ token \in 0 .. MaxRandom
    /\ ciphers \subseteq 1 .. MaxRandom /\ shown \subseteq 1 .. MaxRandom
    /\ lost \in BOOLEAN
    /\ randoms \in 0 .. MaxRandom

\* A new data base, or one from before the columns; a crash leaves the rest.
BootInit ==
    /\ phase = "down" /\ altered = 0 /\ encKey = 0 /\ unseen = 0
    /\ columns \in {{}, Range(Columns)}
    /\ salt = 0 /\ token = 0 /\ ciphers = {} /\ shown = {}
    /\ lost = FALSE /\ randoms = 0

At(from, to) == phase = from /\ phase' = to

Made == randoms < MaxRandom /\ randoms' = randoms + 1

Start ==
    /\ At("down", "migrate")
    /\ altered' = 0
    /\ UNCHANGED <<encKey, unseen, columns, salt, token, ciphers, shown, lost, randoms>>

\* Mutant of Alter: a column that is there ends the migration.
AlterOnce ==
    /\ phase = "migrate" /\ altered < Len(Columns)
    /\ altered' = IF Columns[altered + 1] \in columns THEN Len(Columns) ELSE altered + 1
    /\ columns' = columns \cup {Columns[altered + 1]}
    /\ UNCHANGED <<phase, encKey, unseen, salt, token, ciphers, shown, lost, randoms>>

\* ADD COLUMN; that the column is there already is the one error expected.
Alter ==
    /\ phase = "migrate" /\ altered < Len(Columns)
    /\ altered' = altered + 1
    /\ columns' = columns \cup {Columns[altered + 1]}
    /\ UNCHANGED <<phase, encKey, unseen, salt, token, ciphers, shown, lost, randoms>>

Opened ==
    /\ At("migrate", "salt") /\ altered = Len(Columns)
    /\ UNCHANGED <<altered, encKey, unseen, columns, salt, token, ciphers, shown, lost, randoms>>

\* Mutant of EnsureSalt: a query that fails counts as a first run.
EnsureSaltAnew ==
    /\ At("salt", "token")
    /\ Made /\ salt' = randoms + 1
    /\ encKey' = salt'
    /\ UNCHANGED <<altered, unseen, columns, token, ciphers, shown, lost>>

\* One is made on the first run; that it is read and stored in two
\* statements makes no difference to a single process.
EnsureSalt ==
    /\ At("salt", "token")
    /\ IF salt = 0 THEN Made /\ salt' = randoms + 1 ELSE UNCHANGED <<salt, randoms>>
    /\ encKey' = salt'
    /\ UNCHANGED <<altered, unseen, columns, token, ciphers, shown, lost>>

\* Mutant of EnsureToken: it is printed, and then stored.
EnsureTokenPrinted ==
    \/ /\ phase = "token" /\ token = 0 /\ unseen = 0
       /\ Made /\ unseen' = randoms + 1
       /\ shown' = shown \cup {randoms + 1}
       /\ UNCHANGED <<phase, altered, encKey, columns, salt, token, ciphers, lost>>
    \/ /\ At("token", "binds") /\ unseen # 0
       /\ token' = unseen /\ unseen' = 0
       /\ UNCHANGED <<altered, encKey, columns, salt, ciphers, shown, lost, randoms>>

\* Made on the first run only: the hash is stored ...
EnsureToken ==
    \/ /\ At("token", "print") /\ token = 0
       /\ Made /\ unseen' = randoms + 1
       /\ token' = randoms + 1
       /\ UNCHANGED <<altered, encKey, columns, salt, ciphers, shown, lost>>
    \/ /\ At("token", "binds") /\ token # 0
       /\ UNCHANGED <<altered, encKey, unseen, columns, salt, token, ciphers, shown, lost, randoms>>

\* ... and then the token is printed, here or never.
PrintToken ==
    /\ At("print", "binds")
    /\ shown' = shown \cup {unseen}
    /\ unseen' = 0
    /\ UNCHANGED <<altered, encKey, columns, salt, token, ciphers, lost, randoms>>

\* The addresses, by default those of the local host, are read and checked.
Bound ==
    /\ At("binds", "seed")
    /\ UNCHANGED <<altered, encKey, unseen, columns, salt, token, ciphers, shown, lost, randoms>>

\* The operator stores a provider's key, encrypted with the key in memory.
StoreKey ==
    /\ phase = "serving"
    /\ ciphers' = ciphers \cup {encKey}
    /\ UNCHANGED <<phase, altered, encKey, unseen, columns, salt, token, shown, lost, randoms>>

\* All that is in memory is lost.
Gone ==
    /\ phase' = "down" /\ altered' = 0 /\ encKey' = 0 /\ unseen' = 0
    /\ lost' = (lost \/ unseen # 0)
    /\ UNCHANGED <<columns, salt, token, ciphers, shown, randoms>>

Boot == Start \/ Alter \/ Opened \/ EnsureSalt \/ EnsureToken \/ PrintToken
=============================================================================
