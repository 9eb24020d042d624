---------------------------- MODULE RecordStore ----------------------------
(***************************************************************************)
(* JDRecordRepository for one record directory                             *)
(*                                                                         *)
(*   <root>/<platform>/<job_id>/.lock                                      *)
(*                              record.json   record.tmp                   *)
(*                              content/<revision>/jd.md screening.md      *)
(*                                                                         *)
(* used by several processes at once.  Each operation runs under flock on  *)
(* .lock, exclusive for writers and shared for readers; a writer of        *)
(* content writes a new revision directory, then points record.json at it, *)
(* then removes every other revision.  A process may die, or raise, at any *)
(* step (Crash: the kernel drops its lock); the machine may lose power     *)
(* (PowerLoss: what was not fsynced may or may not have reached the disk). *)
(***************************************************************************)
EXTENDS RecordModel

CONSTANTS
    Proc,       \* processes that share the records directory
    Rev,        \* revision names (uuid4)
    Torn,       \* a file whose contents are incomplete
    Ops,        \* the operations the processes call
    MaxEvents   \* bound: no status event is added beyond this many

ASSUME OpsAreOperations == Ops \subseteq Op
ASSUME MaxEventsIsNat == MaxEvents \in Nat

Manifest == [rev: Rev, doc: Loadable]
Content  == [jd: Optional(Jd), screening: Optional(Screening)]

ASSUME SentinelsAreNotFiles ==
    /\ None \notin Content /\ None \notin Manifest /\ None \notin Stored
    /\ Torn \notin Manifest /\ Torn # None
    /\ None \notin Rev

VARIABLES
    dir,            \* the record directory exists
    placed,         \* ... and its entry in the parent has reached the disk
    manifest,       \* record.json: a manifest, or None
    temp,           \* record.tmp
    disk,           \* content/<revision>: its files, or None
    savedManifest,  \* record.json and content/ as the fsyncs so far
    savedDisk,      \*   guarantee them after a power loss
    lock,           \* mode in which each process holds flock(.lock)
    pc, op,         \* where each process is, in which operation
    seen,           \* the manifest the operation read
    rev             \* the revision the operation writes

diskVars == <<dir, placed, manifest, temp, disk, savedManifest, savedDisk>>
procVars == <<lock, pc, op, seen, rev>>
vars == <<diskVars, procVars>>

Stages == {"idle", "open", "flock", "read", "content", "decide", "mkrev",
           "files", "syncrev", "tmp", "fill", "rename", "syncman", "cleanup",
           "reply", "refused", "integrity"}

ContentOf(s) == [jd |-> s.jd, screening |-> s.screening]
EmptyDir     == [jd |-> None, screening |-> None]

Init == /\ dir = FALSE /\ placed = FALSE
        /\ manifest = None /\ temp = None
        /\ disk = [r \in Rev |-> None]
        /\ savedManifest = None
        /\ savedDisk = [r \in Rev |-> None]
        /\ lock = [p \in Proc |-> "none"]
        /\ pc = [p \in Proc |-> "idle"]
        /\ op = [p \in Proc |-> None]
        /\ seen = [p \in Proc |-> None]
        /\ rev = [p \in Proc |-> None]

Goto(p, stage) == pc' = [pc EXCEPT ![p] = stage]

-----------------------------------------------------------------------------
(* Entering an operation.  save and create go straight to the lock; the    *)
(* other writers first test that record.json exists, the readers that the  *)
(* directory does, both outside the lock; when the test fails the caller   *)
(* gets JobRecordNotFound (or None, from find) and nothing changes.        *)

HistoryHasRoom ==   \* bound MaxEvents
    manifest # None => Len(manifest.doc.history) < MaxEvents

Begin(p) ==
    /\ pc[p] = "idle"
    /\ \E o \in Ops :
        /\ IsRead(o) => dir
        /\ ~IsRead(o) /\ ~IsSave(o) => manifest # None
        /\ o.kind = "status" => HistoryHasRoom
        /\ op' = [op EXCEPT ![p] = o]
    /\ Goto(p, "open")
    /\ UNCHANGED <<diskVars, lock, seen, rev>>

(* _locked: mkdir(parents=True, exist_ok=True), open .lock ... *)
OpenLock(p) ==
    /\ pc[p] = "open"
    /\ dir' = TRUE
    /\ Goto(p, "flock")
    /\ UNCHANGED <<placed, manifest, temp, disk, savedManifest, savedDisk,
                   lock, op, seen, rev>>

(* ... and flock it. *)
LockMode(o) == IF IsRead(o) THEN "shared" ELSE "exclusive"

(* mutation: readers do not wait for a writer *)
CompatibleReader(mode, held) == held = "none" \/ mode = "shared"

Compatible(mode, held) ==
    held = "none" \/ (mode = "shared" /\ held = "shared")

(* mutation: the lock file is opened and never locked *)
AcquireNothing(p) ==
    /\ pc[p] = "flock"
    /\ lock' = [lock EXCEPT ![p] = LockMode(op[p])]
    /\ Goto(p, "read")
    /\ UNCHANGED <<diskVars, op, seen, rev>>

Acquire(p) ==
    /\ pc[p] = "flock"
    /\ \A q \in Proc \ {p} : Compatible(LockMode(op[p]), lock[q])
    /\ lock' = [lock EXCEPT ![p] = LockMode(op[p])]
    /\ Goto(p, "read")
    /\ UNCHANGED <<diskVars, op, seen, rev>>

(* mutation: no finally, an exception keeps the lock *)
ReleaseOnReply(p) ==
    /\ pc[p] = "reply"
    /\ lock' = [lock EXCEPT ![p] = "none"]
    /\ Goto(p, "idle")
    /\ op' = [op EXCEPT ![p] = None]
    /\ seen' = [seen EXCEPT ![p] = None]
    /\ rev' = [rev EXCEPT ![p] = None]
    /\ UNCHANGED diskVars

(* Leaving the with block, with a result or with an exception. *)
Release(p) ==
    /\ pc[p] \in {"reply", "refused", "integrity"}
    /\ lock' = [lock EXCEPT ![p] = "none"]
    /\ Goto(p, "idle")
    /\ op' = [op EXCEPT ![p] = None]
    /\ seen' = [seen EXCEPT ![p] = None]
    /\ rev' = [rev EXCEPT ![p] = None]
    /\ UNCHANGED diskVars

-----------------------------------------------------------------------------
(* _read_locked and get_metadata *)

ReadManifest(p) ==
    /\ pc[p] = "read"
    /\ seen' = [seen EXCEPT ![p] = manifest]
    /\ Goto(p, CASE manifest = None /\ IsSave(op[p])  -> "decide"
                 [] manifest = None /\ ~IsSave(op[p]) -> "integrity"
                 [] OTHER -> IF op[p].kind = "metadata" THEN "reply"
                             ELSE "content")
    /\ UNCHANGED <<diskVars, lock, op, rev>>

(* _read_and_verify_content, for jd.md and screening.md: the files are     *)
(* read and their hashes compared with the manifest's.                     *)
ReadContent(p) ==
    /\ pc[p] = "content"
    /\ Goto(p, IF disk[seen[p].rev] # ContentOf(seen[p].doc) THEN "integrity"
               ELSE IF IsRead(op[p]) THEN "reply" ELSE "decide")
    /\ UNCHANGED <<diskVars, lock, op, seen, rev>>

-----------------------------------------------------------------------------
Doc(m) == IF m = None THEN None ELSE m.doc

(* The preconditions of the operation, against the record just read. *)
Decide(p) ==
    /\ pc[p] = "decide"
    /\ Goto(p, IF Refused(op[p], Doc(seen[p])) THEN "refused"
               ELSE IF WritesContent(op[p]) THEN "mkrev" ELSE "tmp")
    /\ UNCHANGED <<diskVars, lock, op, seen, rev>>

(* The manifest the operation is about to publish: of a new revision, or   *)
(* (_load_manifest_content) of the one already there.                      *)
NewManifest(p) ==
    [rev |-> IF WritesContent(op[p]) THEN rev[p] ELSE seen[p].rev,
     doc |-> Applied(op[p], Doc(seen[p]))]

(* _write_revision_content: a fresh directory, the files (each fsynced),   *)
(* then fsync of the directory, of content/ and of the record directory.   *)
Unused(r) == disk[r] = None /\ savedDisk[r] = None

MakeRevision(p) ==
    /\ pc[p] = "mkrev"
    /\ \E r \in Rev :
        /\ Unused(r)
        /\ \A q \in Proc : rev[q] # r
        /\ disk' = [disk EXCEPT ![r] = EmptyDir]
        /\ rev' = [rev EXCEPT ![p] = r]
    /\ Goto(p, "files")
    /\ UNCHANGED <<dir, placed, manifest, temp, savedManifest, savedDisk,
                   lock, op, seen>>

WriteFiles(p) ==
    /\ pc[p] = "files"
    /\ disk' = [disk EXCEPT ![rev[p]] = ContentOf(NewManifest(p).doc)]
    /\ Goto(p, "syncrev")
    /\ UNCHANGED <<dir, placed, manifest, temp, savedManifest, savedDisk,
                   lock, op, seen, rev>>

(* content/ with revision r and every removal made durable. *)
DiskSynced(r) == [s \in Rev |-> IF s = r \/ disk[s] = None THEN disk[s]
                                ELSE savedDisk[s]]

(* mutation: the directories of the new revision are not fsynced *)
SyncRevisionSkipped(p) ==
    /\ pc[p] = "syncrev"
    /\ Goto(p, "tmp")
    /\ UNCHANGED <<diskVars, lock, op, seen, rev>>

SyncRevision(p) ==
    /\ pc[p] = "syncrev"
    /\ savedDisk' = DiskSynced(rev[p])
    /\ savedManifest' = manifest
    /\ Goto(p, "tmp")
    /\ UNCHANGED <<dir, placed, manifest, temp, disk, lock, op, seen, rev>>

(* _publish_manifest: write record.tmp, fsync it, rename it over           *)
(* record.json, fsync the record directory.                                *)
OpenTemp(p) ==
    /\ pc[p] = "tmp"
    /\ temp' = Torn
    /\ Goto(p, "fill")
    /\ UNCHANGED <<dir, placed, manifest, disk, savedManifest, savedDisk,
                   lock, op, seen, rev>>

FillTemp(p) ==
    /\ pc[p] = "fill"
    /\ temp' = NewManifest(p)
    /\ Goto(p, "rename")
    /\ UNCHANGED <<dir, placed, manifest, disk, savedManifest, savedDisk,
                   lock, op, seen, rev>>

Rename(p) ==
    /\ pc[p] = "rename"
    /\ manifest' = temp
    /\ temp' = None
    /\ Goto(p, "syncman")
    /\ UNCHANGED <<dir, placed, disk, savedManifest, savedDisk,
                   lock, op, seen, rev>>

(* mutation: the rename is not fsynced *)
SyncManifestSkipped(p) ==
    /\ pc[p] = "syncman"
    /\ Goto(p, IF WritesContent(op[p]) THEN "cleanup" ELSE "reply")
    /\ UNCHANGED <<diskVars, lock, op, seen, rev>>

SyncManifest(p) ==
    /\ pc[p] = "syncman"
    /\ savedManifest' = manifest
    /\ Goto(p, IF WritesContent(op[p]) THEN "cleanup" ELSE "reply")
    /\ UNCHANGED <<dir, placed, manifest, temp, disk, savedDisk,
                   lock, op, seen, rev>>

(* _cleanup_stale_revisions: for every entry of content/ but the one kept, *)
(* unlink its files, then rmdir it; then fsync.                            *)

Stale(r, keep) == r # keep /\ disk[r] # None

RemoveRevision(p) ==
    /\ pc[p] = "cleanup"
    /\ \E r \in Rev :
        /\ Stale(r, rev[p])
        /\ disk' = [disk EXCEPT ![r] = IF @ = EmptyDir THEN None ELSE EmptyDir]
    /\ UNCHANGED <<dir, placed, manifest, temp, savedManifest, savedDisk,
                   procVars>>

SyncCleanup(p) ==
    /\ pc[p] = "cleanup"
    /\ \A r \in Rev : ~Stale(r, rev[p])
    /\ savedDisk' = DiskSynced(rev[p])
    /\ savedManifest' = manifest
    /\ Goto(p, "reply")
    /\ UNCHANGED <<dir, placed, manifest, temp, disk, lock, op, seen, rev>>

-----------------------------------------------------------------------------
(* Failures *)

(* Enough unused revision names are left for the next content write. *)
RevisionsRemain == \E r, s \in Rev : r # s /\ Unused(r) /\ Unused(s)

(* The process dies, or an OSError (a full disk) unwinds the operation:    *)
(* either way its lock goes and its files stay.                            *)
Crash(p) ==
    /\ pc[p] # "idle"
    /\ RevisionsRemain     \* bound: at most |Rev| - 2 leftovers
    /\ lock' = [lock EXCEPT ![p] = "none"]
    /\ Goto(p, "idle")
    /\ op' = [op EXCEPT ![p] = None]
    /\ seen' = [seen EXCEPT ![p] = None]
    /\ rev' = [rev EXCEPT ![p] = None]
    /\ UNCHANGED diskVars

(* The kernel writes the parent directory back; no code asks it to. *)
Writeback ==
    /\ dir /\ ~placed
    /\ placed' = TRUE
    /\ UNCHANGED <<dir, manifest, temp, disk, savedManifest, savedDisk,
                   procVars>>

(* What a power loss may make of a revision directory. *)
Survivors(r) == IF disk[r] = savedDisk[r] THEN {disk[r]}
                ELSE {disk[r], savedDisk[r], EmptyDir}

NothingRuns ==
    /\ lock' = [p \in Proc |-> "none"]
    /\ pc' = [p \in Proc |-> "idle"]
    /\ op' = [p \in Proc |-> None]
    /\ seen' = [p \in Proc |-> None]
    /\ rev' = [p \in Proc |-> None]

PowerLoss ==
    /\ RevisionsRemain
    /\ manifest' \in {manifest, savedManifest}
    /\ \E d \in [Rev -> UNION {Survivors(r) : r \in Rev}] :
        /\ \A r \in Rev : d[r] \in Survivors(r)
        /\ disk' = d
    /\ temp' \in {None, Torn}
    /\ savedManifest' = manifest'
    /\ savedDisk' = disk'
    /\ NothingRuns
    /\ UNCHANGED <<dir, placed>>

(* No fsync covers the directories above the record: until they are        *)
(* written back a power loss may take the whole record directory.          *)
PowerLossBeforePlaced ==
    /\ dir /\ ~placed
    /\ dir' = FALSE
    /\ manifest' = None /\ savedManifest' = None /\ temp' = None
    /\ disk' = [r \in Rev |-> None]
    /\ savedDisk' = [r \in Rev |-> None]
    /\ NothingRuns
    /\ UNCHANGED placed

-----------------------------------------------------------------------------
Step(p) ==
    \/ OpenLock(p) \/ Acquire(p) \/ Release(p)
    \/ ReadManifest(p) \/ ReadContent(p) \/ Decide(p)
    \/ MakeRevision(p) \/ WriteFiles(p) \/ SyncRevision(p)
    \/ OpenTemp(p) \/ FillTemp(p) \/ Rename(p) \/ SyncManifest(p)
    \/ RemoveRevision(p) \/ SyncCleanup(p)

Next ==
    \/ \E p \in Proc : Begin(p) \/ Step(p) \/ Crash(p)
    \/ Writeback \/ PowerLoss \/ PowerLossBeforePlaced

Spec == Init /\ [][Next]_vars

(* A process that does not die keeps executing its operation. *)
FairSpec == Spec /\ \A p \in Proc : WF_vars(Step(p))
-----------------------------------------------------------------------------
(* Properties *)

TypeOK ==
    /\ dir \in BOOLEAN /\ placed \in BOOLEAN
    /\ manifest \in Manifest \cup {None}
    /\ temp \in Manifest \cup {None, Torn}
    /\ disk \in [Rev -> Content \cup {None}]
    /\ savedManifest \in Manifest \cup {None}
    /\ savedDisk \in [Rev -> Content \cup {None}]
    /\ lock \in [Proc -> {"none", "shared", "exclusive"}]
    /\ pc \in [Proc -> Stages]
    /\ op \in [Proc -> Ops \cup {None}]
    /\ seen \in [Proc -> Manifest \cup {None}]
    /\ rev \in [Proc -> Rev \cup {None}]

(* record.json always points at a revision whose files are all there with  *)
(* the contents it was published with: whoever died, whatever was swept    *)
(* away by cleanup, whatever a power loss left (the order revision, fsync, *)
(* manifest, fsync, cleanup of _save and update_screening_result).         *)
ManifestIntact ==
    manifest # None => disk[manifest.rev] = ContentOf(manifest.doc)

(* A reader or writer only ever fails with JobRecordIntegrityError when    *)
(* record.json is missing, never because a writer replaced or removed the  *)
(* revision between its reads of the manifest and of the files.            *)
NoTornRead == \A p \in Proc : pc[p] = "integrity" => seen[p] = None

(* The answer an operation returns is the record as it is at the moment    *)
(* the lock is let go: get returns the published record, a write operation *)
(* the record it published and nobody else's update of it.                 *)
AnswerIsCurrent ==
    \A p \in Proc : pc[p] = "reply" =>
        Doc(manifest) = IF IsRead(op[p]) THEN Doc(seen[p])
                        ELSE Applied(op[p], Doc(seen[p]))

(* Old revisions are removed, and callers answered, only once a power loss *)
(* can no longer bring the previous record.json back.                      *)
AnswerIsDurable ==
    \A p \in Proc : pc[p] \in {"cleanup", "reply"} /\ ~IsRead(op[p])
                      => savedManifest = manifest

(* "latest-only": when a write of content answers, the published revision  *)
(* is the only one left, leftovers of earlier crashes included.            *)
OnlyLatestRevision ==
    \A p \in Proc : pc[p] = "reply" /\ WritesContent(op[p]) =>
        \A r \in Rev : disk[r] # None => r = manifest.rev

(* Whoever holds the lock of a record lets it go, unless it dies: no       *)
(* exception path, cleanup loop or wait keeps it.                          *)
LockIsReleased ==
    \A p \in Proc : lock[p] # "none" ~> lock[p] = "none"

(* The files and locks implement an atomic record. *)
Visible(m) == IF m \in {None, Torn} THEN None ELSE m.doc
Atomic == INSTANCE RecordSpec WITH
            record <- Visible(manifest), durable <- Visible(savedManifest)
ImplementsAtomicRecord == Atomic!Spec
=============================================================================
