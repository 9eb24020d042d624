---------------------------- MODULE IndexRefresh ----------------------------
(***************************************************************************)
(* JDSearchIndex, the SQLite database derived from the records, and those  *)
(* who rebuild it: the console server at its start, after every status it  *)
(* saves and for a search with refresh=1, and `index rebuild`.  The other  *)
(* commands write records and leave the index alone.                       *)
(*                                                                         *)
(* A record is the number of the write that published it.  A record that   *)
(* is listed and cannot be read is a directory whose manifest is not there *)
(* yet, or one that was damaged.                                           *)
(***************************************************************************)
EXTENDS Naturals

CONSTANTS
    Keys,
    FolderOf,    \* the platform directory of each record
    Callers,     \* requests of the console and commands at work
    Processes,   \* callers by the process they run in
    NoDatabase,
    Nobody,      \* the lock is free
    MaxWrites,   \* bound: writes of a record
    MaxRebuilds  \* bound: rebuilds started

ASSUME IndexAssumption ==
    /\ Nobody \notin Callers
    /\ MaxWrites \in Nat /\ MaxRebuilds \in Nat
    /\ NoDatabase \notin [Keys -> Nat]
    /\ \A P \in Processes : P \subseteq Callers

VARIABLES
    stored,      \* stored[k]: the last write of a record, 0 before it is there
    unreadable,  \* listed records that do not pass validate_integrity
    index,       \* the database: the write each row was made of, 0 without a row
    holder,      \* who holds the lock file
    caller,      \* what each caller is doing
    rebuilds,
    promised     \* auxiliary: the writes some answer said the index shows

indexVars == <<stored, unreadable, index, holder, caller, rebuilds, promised>>

NoRows == [k \in Keys |-> 0]

(* need: the writes that were saved when the caller asked; folders, keys:   *)
(* what iter_keys has yet to list and to yield; rows: the temporary         *)
(* database; failed: a record that could not be read                        *)
Free == [at |-> "free", need |-> NoRows, folders |-> {}, keys |-> {}, rows |-> NoRows,
         failed |-> FALSE]

IndexInit ==
    /\ stored = NoRows
    /\ unreadable = {}
    /\ index = NoDatabase
    /\ holder = Nobody
    /\ caller = [c \in Callers |-> Free]
    /\ rebuilds = 0
    /\ promised = NoRows

Does(c, local) == caller' = [caller EXCEPT ![c] = local]

Listed == {k \in Keys : stored[k] > 0}

Asks(c, need) ==
    /\ caller[c].at = "free"
    /\ rebuilds < MaxRebuilds
    /\ rebuilds' = rebuilds + 1
    /\ Does(c, [Free EXCEPT !.at = "wait", !.need = need])

(* do_PATCH: the status is saved, which reads the record; then the index    *)
(* is rebuilt                                                               *)
SaveStatus(c, k) ==
    /\ k \in Listed \ unreadable
    /\ stored[k] < MaxWrites
    /\ stored' = [stored EXCEPT ![k] = @ + 1]
    /\ Asks(c, [NoRows EXCEPT ![k] = stored'[k]])
    /\ UNCHANGED <<unreadable, index, holder, promised>>

(* a search with refresh=1, the start of the console, `index rebuild`       *)
Refresh(c) ==
    /\ Asks(c, stored)
    /\ UNCHANGED <<stored, unreadable, index, holder, promised>>

(* mutation: the lock file is written to, not waited for *)
LockForAll(c) == TRUE

LockFree(c) == holder = Nobody

(* rebuild: under the lock, a temporary database, and the first step of     *)
(* iter_keys, which lists the platforms                                     *)
Locks(c) ==
    /\ caller[c].at = "wait"
    /\ LockFree(c)
    /\ holder' = c
    /\ Does(c, [caller[c] EXCEPT !.at = "build", !.folders = {FolderOf[k] : k \in Listed}])
    /\ UNCHANGED <<stored, unreadable, index, rebuilds, promised>>

(* the records of a platform are listed when their turn comes               *)
Lists(c, folder) ==
    /\ caller[c].at = "build"
    /\ caller[c].keys = {}
    /\ folder \in caller[c].folders
    /\ Does(c, [caller[c] EXCEPT !.folders = @ \ {folder},
                                 !.keys = {k \in Listed : FolderOf[k] = folder}])
    /\ UNCHANGED <<stored, unreadable, index, holder, rebuilds, promised>>

(* validate_integrity, under the lock of the record, and the row            *)
Reads(c, k) ==
    /\ caller[c].at = "build"
    /\ k \in caller[c].keys
    /\ Does(c, IF k \in unreadable
               THEN [caller[c] EXCEPT !.keys = @ \ {k}, !.failed = TRUE]
               ELSE [caller[c] EXCEPT !.keys = @ \ {k}, !.rows[k] = stored[k]])
    /\ UNCHANGED <<stored, unreadable, index, holder, rebuilds, promised>>

Listing(c) == caller[c].at = "build" /\ caller[c].folders = {} /\ caller[c].keys = {}

(* the temporary database replaces the index, whole or not at all           *)
Replaces(c) ==
    /\ Listing(c)
    /\ ~caller[c].failed
    /\ index' = caller[c].rows
    /\ Does(c, [caller[c] EXCEPT !.at = "replaced"])
    /\ UNCHANGED <<stored, unreadable, holder, rebuilds, promised>>

LetsGo(c) == holder' = IF holder = c THEN Nobody ELSE holder

(* Errors of records, or an exception anywhere (a full disk, a failing      *)
(* fsync after the replacement): the lock goes, and the answer says that    *)
(* the index was not refreshed.                                             *)
Fails(c) ==
    /\ caller[c].at \in {"build", "replaced"}
    /\ LetsGo(c)
    /\ Does(c, Free)
    /\ UNCHANGED <<stored, unreadable, index, rebuilds, promised>>

Unlocks(c) ==
    /\ caller[c].at = "replaced"
    /\ LetsGo(c)
    /\ Does(c, [caller[c] EXCEPT !.at = "answer"])
    /\ UNCHANGED <<stored, unreadable, index, rebuilds, promised>>

(* index_refreshed, or the rows of the search, which reads whatever database *)
(* is there by now                                                          *)
Answers(c) ==
    /\ caller[c].at = "answer"
    /\ promised' = [k \in Keys |-> IF caller[c].need[k] > promised[k]
                                   THEN caller[c].need[k] ELSE promised[k]]
    /\ Does(c, Free)
    /\ UNCHANGED <<stored, unreadable, index, holder, rebuilds>>

Rebuild(c) ==
    \/ Locks(c)
    \/ \E folder \in {FolderOf[k] : k \in Keys} : Lists(c, folder)
    \/ \E k \in Keys : Reads(c, k)
    \/ Replaces(c) \/ Fails(c) \/ Unlocks(c) \/ Answers(c)

(* Other commands write a record, one that cannot be read included (a new   *)
(* one, or the user's repair); a creation has made the directory, or a      *)
(* record is damaged.                                                       *)
RecordWritten(k) ==
    /\ stored[k] < MaxWrites
    /\ stored' = [stored EXCEPT ![k] = @ + 1]
    /\ unreadable' = unreadable \ {k}
    /\ UNCHANGED <<index, holder, caller, rebuilds, promised>>

Unfinished(k) ==
    /\ stored[k] < MaxWrites
    /\ k \notin unreadable
    /\ stored' = [stored EXCEPT ![k] = @ + 1]
    /\ unreadable' = unreadable \cup {k}
    /\ UNCHANGED <<index, holder, caller, rebuilds, promised>>

(* A process dies with all its threads: its lock goes, and its temporary    *)
(* database stays, under a name nobody else uses.                           *)
ProcessDies(P) ==
    /\ \E c \in P : caller[c].at # "free"
    /\ caller' = [c \in Callers |-> IF c \in P THEN Free ELSE caller[c]]
    /\ holder' = IF holder \in P THEN Nobody ELSE holder
    /\ UNCHANGED <<stored, unreadable, index, rebuilds, promised>>

IndexNext ==
    \/ \E c \in Callers : Refresh(c) \/ Rebuild(c)
    \/ \E c \in Callers, k \in Keys : SaveStatus(c, k)
    \/ \E k \in Keys : RecordWritten(k) \/ Unfinished(k)
    \/ \E P \in Processes : ProcessDies(P)

IndexSpec == IndexInit /\ [][IndexNext]_indexVars

-----------------------------------------------------------------------------
(* Whoever was told that the index is refreshed finds in it, from then on,  *)
(* at least what had been saved when they asked: no rebuild that read the   *)
(* records earlier comes after (do_PATCH, _search, rebuild).                *)
RefreshedShowsIt ==
    \A k \in Keys : promised[k] > 0 => index # NoDatabase /\ index[k] >= promised[k]

(* A database is replaced by one that is nowhere older.                     *)
IndexAdvances ==
    [][index # NoDatabase => \A k \in Keys : index'[k] >= index[k]]_indexVars
=============================================================================
