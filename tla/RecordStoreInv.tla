--------------------------- MODULE RecordStoreInv ---------------------------
(***************************************************************************)
(* The inductive invariant behind the safety properties of RecordStore.    *)
(***************************************************************************)
EXTENDS RecordStore

(* Stages at which a process holds the lock. *)
Locked == Stages \ {"idle", "open", "flock"}

(* Stages of a writer that has read and accepted the record ... *)
Writing == {"mkrev", "files", "syncrev", "tmp", "fill", "rename"}
(* ... that has published the new one ... *)
Published == {"syncman", "cleanup"}
(* ... and, for a writer of content, that owns a revision directory. *)
OwnsRevision == {"files", "syncrev", "tmp", "fill", "rename"}

Writer(p) == ~IsRead(op[p])

(* Which stages go with which operation and lock. *)
StageInv(p) ==
    /\ pc[p] = "idle" => op[p] = None /\ rev[p] = None
    /\ pc[p] # "idle" => op[p] \in Ops
    /\ pc[p] \in Locked => lock[p] = LockMode(op[p])
    /\ pc[p] \notin Locked => lock[p] = "none"
    /\ pc[p] \in Writing \cup Published \cup {"decide", "refused"} => Writer(p)
    /\ pc[p] \in {"mkrev", "files", "syncrev", "cleanup"}
         => WritesContent(op[p])

(* What the process read is still what is published, until it publishes. *)
SeenInv(p) ==
    /\ pc[p] \in Writing \cup {"content", "decide"} => seen[p] = manifest
    /\ pc[p] = "content" => seen[p] # None
    /\ pc[p] = "integrity" => seen[p] = None
    /\ pc[p] = "reply" /\ IsRead(op[p]) => seen[p] = manifest
    /\ pc[p] \in Writing => ~Refused(op[p], Doc(seen[p]))

(* A writer's own revision is referenced by nobody until it publishes it,  *)
(* and complete on disk, and safely so, before that.                       *)
RevisionInv(p) ==
    /\ pc[p] \in OwnsRevision /\ WritesContent(op[p]) =>
         /\ rev[p] \in Rev
         /\ manifest # None => manifest.rev # rev[p]
         /\ savedManifest # None => savedManifest.rev # rev[p]
    /\ pc[p] \in {"syncrev", "tmp", "fill", "rename"} /\ WritesContent(op[p])
         => disk[rev[p]] = ContentOf(NewManifest(p).doc)
    /\ pc[p] \in {"tmp", "fill", "rename"} /\ WritesContent(op[p])
         => savedDisk[rev[p]] = ContentOf(NewManifest(p).doc)

(* What a writer has in record.tmp, in record.json and on the platter. *)
PublishInv(p) ==
    /\ pc[p] = "rename" => temp = NewManifest(p)
    /\ pc[p] \in Published \/ (pc[p] = "reply" /\ Writer(p)) =>
         /\ manifest # None
         /\ manifest = NewManifest(p)
    /\ pc[p] = "cleanup" \/ (pc[p] = "reply" /\ Writer(p)) =>
         savedManifest = manifest
    /\ pc[p] = "reply" /\ WritesContent(op[p]) =>
         \A r \in Rev : disk[r] # None => r = manifest.rev

ProcInv(p) == StageInv(p) /\ SeenInv(p) /\ RevisionInv(p) /\ PublishInv(p)

(* Both the manifest now in place and the one a power loss would restore   *)
(* point at revisions that are complete, now and after a power loss.       *)
Backed(m) == m # None => /\ disk[m.rev] = ContentOf(m.doc)
                         /\ savedDisk[m.rev] = ContentOf(m.doc)
DiskInv == Backed(manifest) /\ Backed(savedManifest)

(* flock: an exclusive holder is alone. *)
LockInv == \A p, q \in Proc :
             p # q /\ lock[p] = "exclusive" => lock[q] = "none"

IInv == /\ TypeOK
        /\ LockInv
        /\ DiskInv
        /\ \A p \in Proc : ProcInv(p)
=============================================================================
