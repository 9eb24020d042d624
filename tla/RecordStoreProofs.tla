------------------------- MODULE RecordStoreProofs -------------------------
(***************************************************************************)
(* Machine-checked proofs about RecordStore, for every set of processes,   *)
(* revisions, documents and operations.  IInv (RecordStoreInv) is          *)
(* inductive; the safety properties follow from it, and under it every     *)
(* step is one of the atomic record of RecordSpec or changes nothing of it.*)
(***************************************************************************)
EXTENDS RecordStoreInv, TLAPS

(* What an accepted write operation stores can be loaded again. *)
LEMMA AppliedType ==
    ASSUME NEW o \in Op, ~IsRead(o),
           NEW cur \in Loadable \cup {None}, ~Refused(o, cur)
    PROVE  Applied(o, cur) \in Loadable
<1>0. None \notin Stored
  BY SentinelsAreNotFiles
<1>1. CASE IsSave(o)
  <2>1. o.kind \in {"create", "save"} /\ o.record \in Loadable
    BY <1>1 DEF IsSave, Op, WriteOp, SaveOp, ScreeningOp, ReplaceOp,
                VerdictOp, PrescreenOp, StatusOp, ReadOp
  <2>2. Saved(o, cur) \in Loadable
    BY <2>1, <1>0 DEF Saved, Loadable, Stored, LatestEventProjects
  <2> QED  BY <1>1, <2>1, <2>2 DEF Applied, IsSave
<1>2. CASE ~IsSave(o)
  <2>1. cur \in Loadable
    BY <1>2 DEF Refused
  <2>2. CASE o.kind = "screening_result"
    <3>1. o \in ScreeningOp
      BY <2>2 DEF Op, WriteOp, SaveOp, ScreeningOp, ReplaceOp,
                  VerdictOp, PrescreenOp, StatusOp, ReadOp
    <3>3. /\ o.screening \in Screening
          /\ Or(o.verdict, cur.verdict) \in Optional(Verdict)
          /\ Or(o.provider, cur.provider) \in Optional(Provider)
      BY <3>1, <2>1 DEF ScreeningOp, Or, Optional, Loadable, Stored
    <3>4. o.capped \in BOOLEAN \cup {None} /\ cur.capped \in BOOLEAN
      BY <3>1, <2>1 DEF ScreeningOp, Optional, Loadable, Stored
    <3>5. Or(o.capped, cur.capped) \in BOOLEAN
      BY <3>4, Zenon DEF Or
    <3>2. Screened(o, cur) \in Loadable
      BY <3>3, <3>5, <2>1 DEF Screened, Optional, Loadable, Stored,
                              LatestEventProjects
    <3> QED  BY <1>2, <2>2, <3>2 DEF Applied
  <2>3. CASE o.kind = "replace_jd"
    <3>1. o \in ReplaceOp
      BY <2>3 DEF Op, WriteOp, SaveOp, ScreeningOp, ReplaceOp,
                  VerdictOp, PrescreenOp, StatusOp, ReadOp
    <3>2. JdReplaced(o, cur) \in Loadable
      BY <3>1, <2>1 DEF ReplaceOp, JdReplaced, Optional, Loadable, Stored,
                        LatestEventProjects
    <3> QED  BY <1>2, <2>3, <3>2 DEF Applied
  <2>4. CASE o.kind = "verdict"
    <3>1. o \in VerdictOp
      BY <2>4 DEF Op, WriteOp, SaveOp, ScreeningOp, ReplaceOp,
                  VerdictOp, PrescreenOp, StatusOp, ReadOp
    <3>2. VerdictUpdated(o, cur) \in Loadable
      BY <3>1, <2>1 DEF VerdictOp, VerdictUpdated, Or, Optional, Loadable,
                        Stored, LatestEventProjects
    <3> QED  BY <1>2, <2>4, <3>2 DEF Applied
  <2>5. CASE o.kind = "prescreen"
    <3>1. o \in PrescreenOp
      BY <2>5 DEF Op, WriteOp, SaveOp, ScreeningOp, ReplaceOp,
                  VerdictOp, PrescreenOp, StatusOp, ReadOp
    <3>2. PrescreenUpdated(o, cur) \in Loadable
      BY <3>1, <2>1 DEF PrescreenOp, PrescreenUpdated, Optional, Loadable,
                        Stored, LatestEventProjects
    <3> QED  BY <1>2, <2>5, <3>2 DEF Applied
  <2>6. CASE o.kind = "status"
    <3>1. o \in StatusOp
      BY <2>6 DEF Op, WriteOp, SaveOp, ScreeningOp, ReplaceOp,
                  VerdictOp, PrescreenOp, StatusOp, ReadOp
    <3>2. StatusUpdated(o, cur) \in Loadable
      <4>1. cur.history \in Seq(Status) /\ LatestEventProjects(cur)
        BY <2>1 DEF Loadable, Stored
      <4>2. CASE o.status = None
        <5>1. /\ StatusUpdated(o, cur) = [cur EXCEPT !.posting = Or(o.posting, @)]
              /\ cur \in Stored
          BY <2>1, <4>2 DEF StatusUpdated, Or, Loadable, Stored
        <5>2. Or(o.posting, cur.posting) \in Posting
          BY <3>1, <5>1 DEF StatusOp, Or, Optional, Stored
        <5>3. /\ StatusUpdated(o, cur) \in Stored
              /\ StatusUpdated(o, cur).history = cur.history
              /\ StatusUpdated(o, cur).status = cur.status
          BY <5>1, <5>2 DEF Stored
        <5> QED
          BY <4>1, <5>3 DEF Loadable, LatestEventProjects
      <4>3. CASE o.status # None
        <5>1. o.status \in Status
          BY <3>1, <4>3 DEF StatusOp, Optional
        <5>2. /\ Append(cur.history, o.status) \in Seq(Status)
              /\ Len(Append(cur.history, o.status)) = Len(cur.history) + 1
              /\ Append(cur.history, o.status)[Len(cur.history) + 1] = o.status
          BY <4>1, <5>1
        <5> QED
          BY <3>1, <2>1, <4>3, <5>1, <5>2
             DEF StatusOp, StatusUpdated, Or, Optional, Loadable, Stored,
                 LatestEventProjects
      <4> QED  BY <4>2, <4>3
    <3> QED  BY <1>2, <2>6, <3>2 DEF Applied
  <2> QED
    BY <1>2, <2>2, <2>3, <2>4, <2>5, <2>6
       DEF Op, WriteOp, SaveOp, ScreeningOp, ReplaceOp, VerdictOp,
           PrescreenOp, StatusOp, ReadOp, IsSave, IsRead
<1> QED  BY <1>1, <1>2

(* An operation that writes no revision leaves both documents as they are. *)
LEMMA MetadataKeepsContent ==
    ASSUME NEW o \in Op, ~IsRead(o), ~WritesContent(o), NEW cur \in Stored
    PROVE  ContentOf(Applied(o, cur)) = ContentOf(cur)
<1>1. o.kind \in {"verdict", "prescreen", "status"}
  BY DEF IsRead, WritesContent, Op, WriteOp, SaveOp, ScreeningOp, ReplaceOp,
         VerdictOp, PrescreenOp, StatusOp, ReadOp
<1>2. ~IsSave(o)
  BY <1>1 DEF IsSave
<1> QED
  BY <1>1, <1>2 DEF Applied, VerdictUpdated, PrescreenUpdated, StatusUpdated,
                    ContentOf, Stored

-----------------------------------------------------------------------------
(* Facts about one process that the action lemmas share. *)

LEMMA LockModes == \A o : LockMode(o) \in {"shared", "exclusive"}
BY DEF LockMode

(* The manifest an accepted writer builds is one. *)
LEMMA NewManifestType ==
    ASSUME TypeOK, NEW p \in Proc, op[p] \in Ops, Writer(p),
           ~Refused(op[p], Doc(seen[p])),
           WritesContent(op[p]) => rev[p] \in Rev
    PROVE  NewManifest(p) \in Manifest
<1>1. op[p] \in Op
  BY OpsAreOperations
<1>2. Doc(seen[p]) \in Loadable \cup {None}
  BY DEF TypeOK, Doc, Manifest
<1>3. Applied(op[p], Doc(seen[p])) \in Loadable
  BY <1>1, <1>2, AppliedType DEF Writer
<1>4. (IF WritesContent(op[p]) THEN rev[p] ELSE seen[p].rev) \in Rev
  <2>1. CASE WritesContent(op[p])
    BY <2>1
  <2>2. CASE ~WritesContent(op[p])
    <3>1. seen[p] # None
      BY <2>2 DEF WritesContent, IsSave, Refused, Doc
    <3> QED  BY <2>2, <3>1 DEF TypeOK, Manifest
  <2> QED  BY <2>1, <2>2
<1> QED  BY <1>3, <1>4 DEF NewManifest, Manifest

(* A process that neither moved nor saw the disk move keeps its invariant. *)
LEMMA Frame ==
    ASSUME NEW q \in Proc, ProcInv(q),
           UNCHANGED <<manifest, temp, disk, savedManifest, savedDisk>>,
           lock'[q] = lock[q], pc'[q] = pc[q], op'[q] = op[q],
           seen'[q] = seen[q], rev'[q] = rev[q]
    PROVE  ProcInv(q)'
BY DEF ProcInv, StageInv, SeenInv, RevisionInv, PublishInv, NewManifest, Writer

(* A process outside the lock keeps its invariant whatever the disk does. *)
LEMMA OutsideFrame ==
    ASSUME NEW q \in Proc, ProcInv(q), pc[q] \notin Locked,
           lock'[q] = lock[q], pc'[q] = pc[q], op'[q] = op[q],
           rev'[q] = rev[q]
    PROVE  ProcInv(q)'
BY DEF ProcInv, StageInv, SeenInv, RevisionInv, PublishInv, Writer, Locked,
       Stages, Writing, Published, OwnsRevision

(* While a writer is at work under its lock, everybody else is outside. *)
LEMMA WriterAlone ==
    ASSUME IInv, NEW p \in Proc, pc[p] \in Locked, Writer(p),
           NEW q \in Proc, q # p
    PROVE  pc[q] \notin Locked
<1>1. lock[p] = "exclusive"
  BY DEF IInv, ProcInv, StageInv, LockMode, Writer
<1>2. lock[q] = "none"
  BY <1>1 DEF IInv, LockInv
<1> QED  BY <1>2, LockModes DEF IInv, ProcInv, StageInv

(* A process that is idle again has nothing left to satisfy. *)
LEMMA IdleInv ==
    ASSUME NEW q \in Proc, pc'[q] = "idle", op'[q] = None, rev'[q] = None,
           lock'[q] = "none"
    PROVE  ProcInv(q)'
BY DEF ProcInv, StageInv, SeenInv, RevisionInv, PublishInv, Writer, Locked,
       Stages, Writing, Published, OwnsRevision

-----------------------------------------------------------------------------
(* Steps that leave the disk alone. *)

LEMMA BeginInv == ASSUME IInv, NEW p \in Proc, Begin(p) PROVE IInv'
<1>1. PICK o \in Ops : op' = [op EXCEPT ![p] = o]
  BY DEF Begin
<1>2. TypeOK'
  BY <1>1 DEF IInv, TypeOK, Begin, Goto, Stages, diskVars
<1>3. LockInv' /\ DiskInv'
  BY DEF IInv, LockInv, DiskInv, Backed, Begin, diskVars
<1>4. ASSUME NEW q \in Proc PROVE ProcInv(q)'
  <2>1. CASE q # p
    BY <2>1, Frame DEF IInv, TypeOK, Begin, Goto, diskVars
  <2>2. CASE q = p
    <3>1. /\ pc'[p] = "open" /\ op'[p] \in Ops /\ lock'[p] = "none"
      BY <1>1 DEF IInv, TypeOK, ProcInv, StageInv, Begin, Goto, Locked
    <3> QED
      BY <2>2, <3>1 DEF ProcInv, StageInv, SeenInv, RevisionInv, PublishInv,
                        Locked, Stages, Writing, Published, OwnsRevision
  <2> QED  BY <2>1, <2>2
<1> QED  BY <1>2, <1>3, <1>4 DEF IInv

LEMMA OpenLockInv == ASSUME IInv, NEW p \in Proc, OpenLock(p) PROVE IInv'
<1>2. TypeOK'
  BY DEF IInv, TypeOK, OpenLock, Goto, Stages
<1>3. LockInv' /\ DiskInv'
  BY DEF IInv, LockInv, DiskInv, Backed, OpenLock
<1>4. ASSUME NEW q \in Proc PROVE ProcInv(q)'
  <2>1. CASE q # p
    BY <2>1, Frame DEF IInv, TypeOK, OpenLock, Goto
  <2>2. CASE q = p
    <3>1. /\ pc'[p] = "flock" /\ op'[p] \in Ops /\ lock'[p] = "none"
      BY DEF IInv, TypeOK, ProcInv, StageInv, OpenLock, Goto, Locked
    <3> QED
      BY <2>2, <3>1 DEF ProcInv, StageInv, SeenInv, RevisionInv, PublishInv,
                        Locked, Stages, Writing, Published, OwnsRevision
  <2> QED  BY <2>1, <2>2
<1> QED  BY <1>2, <1>3, <1>4 DEF IInv

(* flock: the mode is granted only beside compatible holders. *)
LEMMA AcquireInv == ASSUME IInv, NEW p \in Proc, Acquire(p) PROVE IInv'
<1>1. op[p] \in Ops
  BY DEF IInv, ProcInv, StageInv, Acquire
<1>2. TypeOK'
  BY LockModes DEF IInv, TypeOK, Acquire, Goto, Stages, diskVars
<1>3. DiskInv'
  BY DEF IInv, DiskInv, Backed, Acquire, diskVars
<1>4. LockInv'
  BY LockModes DEF IInv, TypeOK, LockInv, Acquire, Compatible
<1>5. ASSUME NEW q \in Proc PROVE ProcInv(q)'
  <2>1. CASE q # p
    BY <2>1, Frame DEF IInv, TypeOK, Acquire, Goto, diskVars
  <2>2. CASE q = p
    <3>1. /\ pc'[p] = "read" /\ op'[p] \in Ops
          /\ lock'[p] = LockMode(op'[p])
      BY <1>1 DEF IInv, TypeOK, Acquire, Goto
    <3> QED
      BY <2>2, <3>1 DEF ProcInv, StageInv, SeenInv, RevisionInv, PublishInv,
                        Locked, Stages, Writing, Published, OwnsRevision
  <2> QED  BY <2>1, <2>2
<1> QED  BY <1>2, <1>3, <1>4, <1>5 DEF IInv

(* A process that lets its lock go, in either way. *)
LEMMA LeaveInv ==
    ASSUME IInv, NEW p \in Proc, UNCHANGED diskVars,
           lock' = [lock EXCEPT ![p] = "none"],
           pc' = [pc EXCEPT ![p] = "idle"], op' = [op EXCEPT ![p] = None],
           seen' = [seen EXCEPT ![p] = None], rev' = [rev EXCEPT ![p] = None]
    PROVE  IInv'
<1>1. TypeOK'
  BY DEF IInv, TypeOK, Stages, diskVars
<1>2. LockInv' /\ DiskInv'
  BY DEF IInv, TypeOK, LockInv, DiskInv, Backed, diskVars
<1>3. ASSUME NEW q \in Proc PROVE ProcInv(q)'
  <2>1. CASE q # p
    BY <2>1, Frame DEF IInv, TypeOK, diskVars
  <2>2. CASE q = p
    BY <2>2, IdleInv DEF IInv, TypeOK
  <2> QED  BY <2>1, <2>2
<1> QED  BY <1>1, <1>2, <1>3 DEF IInv

LEMMA ReadManifestInv ==
    ASSUME IInv, NEW p \in Proc, ReadManifest(p) PROVE IInv'
<1>1. pc[p] = "read" /\ op[p] \in Ops /\ lock[p] = LockMode(op[p])
  BY DEF IInv, ProcInv, StageInv, ReadManifest, Locked, Stages
<1>2. /\ pc'[p] \in {"decide", "integrity", "reply", "content"}
      /\ pc'[p] = "decide" => IsSave(op[p])
      /\ pc'[p] = "integrity" => manifest = None
      /\ pc'[p] = "reply" => op[p].kind = "metadata"
      /\ pc'[p] = "content" => manifest # None
  BY DEF IInv, TypeOK, ReadManifest, Goto
<1>3. TypeOK'
  BY <1>2 DEF IInv, TypeOK, ReadManifest, Goto, Stages, diskVars
<1>4. LockInv' /\ DiskInv'
  BY DEF IInv, LockInv, DiskInv, Backed, ReadManifest, diskVars
<1>5. ASSUME NEW q \in Proc PROVE ProcInv(q)'
  <2>1. CASE q # p
    BY <2>1, Frame DEF IInv, TypeOK, ReadManifest, Goto, diskVars
  <2>2. CASE q = p
    <3>1. /\ seen'[p] = manifest /\ manifest' = manifest
          /\ op'[p] = op[p] /\ lock'[p] = lock[p]
      BY DEF IInv, TypeOK, ReadManifest, diskVars
    <3>2. /\ pc'[p] = "decide" => ~IsRead(op[p])
          /\ pc'[p] = "reply" => IsRead(op[p]) /\ ~WritesContent(op[p])
      BY <1>2 DEF IsSave, IsRead, WritesContent
    <3> QED
      BY <2>2, <1>1, <1>2, <3>1, <3>2
         DEF ProcInv, StageInv, SeenInv, RevisionInv, PublishInv, Writer,
             Locked, Stages, Writing, Published, OwnsRevision
  <2> QED  BY <2>1, <2>2
<1> QED  BY <1>3, <1>4, <1>5 DEF IInv

LEMMA ReadContentInv ==
    ASSUME IInv, NEW p \in Proc, ReadContent(p) PROVE IInv'
<1>1. /\ pc[p] = "content" /\ op[p] \in Ops /\ lock[p] = LockMode(op[p])
      /\ seen[p] = manifest /\ manifest # None
  BY DEF IInv, ProcInv, StageInv, SeenInv, ReadContent, Locked, Stages
<1>2. disk[manifest.rev] = ContentOf(manifest.doc)
  BY <1>1 DEF IInv, DiskInv, Backed
<1>3. pc' = [pc EXCEPT ![p] = IF IsRead(op[p]) THEN "reply" ELSE "decide"]
  BY <1>1, <1>2 DEF ReadContent, Goto
<1>4. TypeOK'
  BY <1>3 DEF IInv, TypeOK, ReadContent, Stages, diskVars
<1>5. LockInv' /\ DiskInv'
  BY DEF IInv, LockInv, DiskInv, Backed, ReadContent, diskVars
<1>6. ASSUME NEW q \in Proc PROVE ProcInv(q)'
  <2>1. CASE q # p
    BY <2>1, <1>3, Frame DEF IInv, TypeOK, ReadContent, diskVars
  <2>2. CASE q = p
    <3>1. /\ seen'[p] = manifest /\ manifest' = manifest
          /\ op'[p] = op[p] /\ lock'[p] = lock[p]
          /\ pc'[p] = IF IsRead(op[p]) THEN "reply" ELSE "decide"
      BY <1>1, <1>3 DEF IInv, TypeOK, ReadContent, diskVars
    <3>2. IsRead(op[p]) => ~WritesContent(op[p])
      BY DEF IsRead, WritesContent
    <3> QED
      BY <2>2, <1>1, <3>1, <3>2
         DEF ProcInv, StageInv, SeenInv, RevisionInv, PublishInv, Writer,
             Locked, Stages, Writing, Published, OwnsRevision
  <2> QED  BY <2>1, <2>2
<1> QED  BY <1>4, <1>5, <1>6 DEF IInv

LEMMA DecideInv == ASSUME IInv, NEW p \in Proc, Decide(p) PROVE IInv'
<1>1. /\ pc[p] = "decide" /\ op[p] \in Ops /\ lock[p] = LockMode(op[p])
      /\ seen[p] = manifest /\ Writer(p)
  BY DEF IInv, ProcInv, StageInv, SeenInv, Decide, Locked, Stages, Writing
<1>2. /\ pc'[p] \in {"refused", "mkrev", "tmp"}
      /\ pc'[p] # "refused" => ~Refused(op[p], Doc(seen[p]))
      /\ pc'[p] = "mkrev" => WritesContent(op[p])
      /\ pc'[p] = "tmp" => ~WritesContent(op[p])
  BY DEF IInv, TypeOK, Decide, Goto
<1>3. TypeOK'
  BY <1>2 DEF IInv, TypeOK, Decide, Goto, Stages, diskVars
<1>4. LockInv' /\ DiskInv'
  BY DEF IInv, LockInv, DiskInv, Backed, Decide, diskVars
<1>5. ASSUME NEW q \in Proc PROVE ProcInv(q)'
  <2>1. CASE q # p
    BY <2>1, Frame DEF IInv, TypeOK, Decide, Goto, diskVars
  <2>2. CASE q = p
    <3>1. /\ seen' = seen /\ manifest' = manifest
          /\ op' = op /\ lock' = lock
      BY DEF Decide, diskVars
    <3> QED
      BY <2>2, <1>1, <1>2, <3>1
         DEF ProcInv, StageInv, SeenInv, RevisionInv, PublishInv, Writer,
             Locked, Stages, Writing, Published, OwnsRevision
  <2> QED  BY <2>1, <2>2
<1> QED  BY <1>3, <1>4, <1>5 DEF IInv

-----------------------------------------------------------------------------
(* Steps of a writer that change the disk: it is alone, so what there is   *)
(* to show is about the files and about itself.                            *)

LEMMA WriterStep ==
    ASSUME IInv, NEW p \in Proc, pc[p] \in Locked, Writer(p),
           lock' = lock, op' = op, seen' = seen,
           \A q \in Proc : q # p => pc'[q] = pc[q] /\ rev'[q] = rev[q],
           TypeOK', DiskInv', ProcInv(p)'
    PROVE  IInv'
<1>1. LockInv'
  BY DEF IInv, LockInv
<1>2. ASSUME NEW q \in Proc, q # p PROVE ProcInv(q)'
  <2>1. pc[q] \notin Locked
    BY <1>2, WriterAlone
  <2> QED  BY <1>2, <2>1, OutsideFrame DEF IInv
<1> QED  BY <1>1, <1>2 DEF IInv

LEMMA MakeRevisionInv ==
    ASSUME IInv, NEW p \in Proc, MakeRevision(p) PROVE IInv'
<1>1. /\ pc[p] = "mkrev" /\ op[p] \in Ops /\ lock[p] = LockMode(op[p])
      /\ seen[p] = manifest /\ Writer(p) /\ WritesContent(op[p])
      /\ ~Refused(op[p], Doc(seen[p]))
  BY DEF IInv, ProcInv, StageInv, SeenInv, MakeRevision, Locked, Stages, Writing
<1>2. PICK r \in Rev : /\ Unused(r)
                       /\ disk' = [disk EXCEPT ![r] = EmptyDir]
                       /\ rev' = [rev EXCEPT ![p] = r]
  BY DEF MakeRevision
<1>3. /\ pc' = [pc EXCEPT ![p] = "files"]
      /\ UNCHANGED <<dir, placed, manifest, temp, savedManifest, savedDisk,
                     lock, op, seen>>
  BY DEF MakeRevision, Goto
<1>4. EmptyDir \in Content
  BY DEF EmptyDir, Content, Optional
<1>5. TypeOK'
  BY <1>2, <1>3, <1>4 DEF IInv, TypeOK, Stages
<1>6. \A m \in Manifest \cup {None} : Backed(m) /\ m # None => m.rev # r
  <2>1. \A s \in Stored : ContentOf(s) \in Content
    BY DEF ContentOf, Content, Stored, Optional
  <2> QED  BY <2>1, <1>2, SentinelsAreNotFiles
              DEF Unused, Backed, Manifest, Loadable
<1>7. DiskInv'
  BY <1>2, <1>3, <1>6 DEF IInv, TypeOK, DiskInv, Backed, Manifest
<1>8. ProcInv(p)'
  <2>1. /\ pc'[p] = "files" /\ rev'[p] = r
        /\ manifest # None => manifest.rev # r
        /\ savedManifest # None => savedManifest.rev # r
    BY <1>2, <1>3, <1>6 DEF IInv, TypeOK, DiskInv
  <2> QED
    BY <1>1, <1>3, <2>1
       DEF ProcInv, StageInv, SeenInv, RevisionInv, PublishInv, Writer,
           Locked, Stages, Writing, Published, OwnsRevision
<1>9. \A q \in Proc : q # p => pc'[q] = pc[q] /\ rev'[q] = rev[q]
  BY <1>2, <1>3 DEF IInv, TypeOK
<1> QED
  BY <1>1, <1>3, <1>5, <1>7, <1>8, <1>9, WriterStep DEF Locked, Stages

LEMMA WriteFilesInv ==
    ASSUME IInv, NEW p \in Proc, WriteFiles(p) PROVE IInv'
<1>1. /\ pc[p] = "files" /\ op[p] \in Ops /\ lock[p] = LockMode(op[p])
      /\ seen[p] = manifest /\ Writer(p) /\ WritesContent(op[p])
      /\ ~Refused(op[p], Doc(seen[p]))
      /\ rev[p] \in Rev
      /\ manifest # None => manifest.rev # rev[p]
      /\ savedManifest # None => savedManifest.rev # rev[p]
  BY DEF IInv, ProcInv, StageInv, SeenInv, RevisionInv, WriteFiles,
         Locked, Stages, Writing, OwnsRevision
<1>2. /\ disk' = [disk EXCEPT ![rev[p]] = ContentOf(NewManifest(p).doc)]
      /\ pc' = [pc EXCEPT ![p] = "syncrev"]
      /\ UNCHANGED <<dir, placed, manifest, temp, savedManifest, savedDisk,
                     lock, op, seen, rev>>
  BY DEF WriteFiles, Goto
<1>3. NewManifest(p) \in Manifest
  BY <1>1, NewManifestType DEF IInv
<1>4. ContentOf(NewManifest(p).doc) \in Content
  BY <1>3 DEF Manifest, Loadable, Stored, ContentOf, Content, Optional
<1>5. TypeOK'
  BY <1>2, <1>4 DEF IInv, TypeOK, Stages
<1>6. DiskInv'
  BY <1>1, <1>2 DEF IInv, TypeOK, DiskInv, Backed, Manifest
<1>7. ProcInv(p)'
  <2>1. /\ pc'[p] = "syncrev"
        /\ disk'[rev[p]] = ContentOf(NewManifest(p).doc)
        /\ NewManifest(p)' = NewManifest(p)
    BY <1>1, <1>2 DEF IInv, TypeOK, NewManifest
  <2> QED
    BY <1>1, <1>2, <2>1
       DEF ProcInv, StageInv, SeenInv, RevisionInv, PublishInv, Writer,
           Locked, Stages, Writing, Published, OwnsRevision
<1>8. \A q \in Proc : q # p => pc'[q] = pc[q] /\ rev'[q] = rev[q]
  BY <1>2 DEF IInv, TypeOK
<1> QED
  BY <1>1, <1>2, <1>5, <1>6, <1>7, <1>8, WriterStep DEF Locked, Stages

(* After an fsync of content/, what backs a manifest still does: nothing   *)
(* that backs one has been removed from the disk.                          *)
LEMMA SyncedKeepsBacking ==
    ASSUME TypeOK, NEW m \in Manifest \cup {None}, Backed(m),
           NEW r \in Rev \cup {None}, m # None => m.rev # r
    PROVE  m # None => DiskSynced(r)[m.rev] = ContentOf(m.doc)
BY DEF TypeOK, Backed, DiskSynced, Manifest

LEMMA SyncRevisionInv ==
    ASSUME IInv, NEW p \in Proc, SyncRevision(p) PROVE IInv'
<1>1. /\ pc[p] = "syncrev" /\ op[p] \in Ops /\ lock[p] = LockMode(op[p])
      /\ seen[p] = manifest /\ Writer(p) /\ WritesContent(op[p])
      /\ ~Refused(op[p], Doc(seen[p]))
      /\ rev[p] \in Rev
      /\ manifest # None => manifest.rev # rev[p]
      /\ savedManifest # None => savedManifest.rev # rev[p]
      /\ disk[rev[p]] = ContentOf(NewManifest(p).doc)
  BY DEF IInv, ProcInv, StageInv, SeenInv, RevisionInv, SyncRevision,
         Locked, Stages, Writing, OwnsRevision
<1>2. /\ savedDisk' = DiskSynced(rev[p])
      /\ savedManifest' = manifest
      /\ pc' = [pc EXCEPT ![p] = "tmp"]
      /\ UNCHANGED <<dir, placed, manifest, temp, disk, lock, op, seen, rev>>
  BY DEF SyncRevision, Goto
<1>3. DiskSynced(rev[p]) \in [Rev -> Content \cup {None}]
  BY DEF IInv, TypeOK, DiskSynced
<1>4. TypeOK'
  BY <1>2, <1>3 DEF IInv, TypeOK, Stages
<1>5. DiskInv'
  <2>1. manifest # None => DiskSynced(rev[p])[manifest.rev] = ContentOf(manifest.doc)
    BY <1>1, SyncedKeepsBacking DEF IInv, DiskInv, TypeOK
  <2> QED  BY <1>2, <2>1 DEF IInv, DiskInv, Backed
<1>6. ProcInv(p)'
  <2>1. DiskSynced(rev[p])[rev[p]] = disk[rev[p]]
    BY <1>1 DEF DiskSynced
  <2>2. /\ pc'[p] = "tmp" /\ NewManifest(p)' = NewManifest(p)
    BY <1>2 DEF IInv, TypeOK, NewManifest
  <2> QED
    BY <1>1, <1>2, <2>1, <2>2
       DEF ProcInv, StageInv, SeenInv, RevisionInv, PublishInv, Writer,
           Locked, Stages, Writing, Published, OwnsRevision
<1>7. \A q \in Proc : q # p => pc'[q] = pc[q] /\ rev'[q] = rev[q]
  BY <1>2 DEF IInv, TypeOK
<1> QED
  BY <1>1, <1>2, <1>4, <1>5, <1>6, <1>7, WriterStep DEF Locked, Stages

(* What holds of a writer between the read and the rename, for the three   *)
(* steps on record.tmp.                                                    *)
LEMMA ReadyToPublish ==
    ASSUME IInv, NEW p \in Proc, pc[p] \in {"tmp", "fill", "rename"}
    PROVE  /\ op[p] \in Ops /\ lock[p] = LockMode(op[p]) /\ Writer(p)
           /\ seen[p] = manifest /\ ~Refused(op[p], Doc(seen[p]))
           /\ NewManifest(p) \in Manifest
           /\ WritesContent(op[p]) =>
                /\ rev[p] \in Rev
                /\ manifest # None => manifest.rev # rev[p]
                /\ savedManifest # None => savedManifest.rev # rev[p]
                /\ disk[rev[p]] = ContentOf(NewManifest(p).doc)
                /\ savedDisk[rev[p]] = ContentOf(NewManifest(p).doc)
<1>1. /\ op[p] \in Ops /\ lock[p] = LockMode(op[p]) /\ Writer(p)
      /\ seen[p] = manifest /\ ~Refused(op[p], Doc(seen[p]))
      /\ WritesContent(op[p]) =>
           /\ rev[p] \in Rev
           /\ manifest # None => manifest.rev # rev[p]
           /\ savedManifest # None => savedManifest.rev # rev[p]
           /\ disk[rev[p]] = ContentOf(NewManifest(p).doc)
           /\ savedDisk[rev[p]] = ContentOf(NewManifest(p).doc)
  BY DEF IInv, ProcInv, StageInv, SeenInv, RevisionInv, Locked, Stages,
         Writing, OwnsRevision
<1> QED  BY <1>1, NewManifestType DEF IInv

LEMMA OpenTempInv == ASSUME IInv, NEW p \in Proc, OpenTemp(p) PROVE IInv'
<1>1. /\ pc[p] = "tmp" /\ temp' = Torn
      /\ pc' = [pc EXCEPT ![p] = "fill"]
      /\ UNCHANGED <<dir, placed, manifest, disk, savedManifest, savedDisk,
                     lock, op, seen, rev>>
  BY DEF OpenTemp, Goto
<1>2. TypeOK'
  BY <1>1 DEF IInv, TypeOK, Stages
<1>3. DiskInv'
  BY <1>1 DEF IInv, DiskInv, Backed
<1>4. ProcInv(p)'
  <2>1. /\ pc'[p] = "fill" /\ NewManifest(p)' = NewManifest(p)
    BY <1>1 DEF IInv, TypeOK, NewManifest
  <2> QED
    BY <1>1, <2>1, ReadyToPublish
       DEF ProcInv, StageInv, SeenInv, RevisionInv, PublishInv, Writer,
           Locked, Stages, Writing, Published, OwnsRevision
<1>5. \A q \in Proc : q # p => pc'[q] = pc[q] /\ rev'[q] = rev[q]
  BY <1>1 DEF IInv, TypeOK
<1> QED
  BY <1>1, <1>2, <1>3, <1>4, <1>5, ReadyToPublish, WriterStep
     DEF Locked, Stages

LEMMA FillTempInv == ASSUME IInv, NEW p \in Proc, FillTemp(p) PROVE IInv'
<1>1. /\ pc[p] = "fill" /\ temp' = NewManifest(p)
      /\ pc' = [pc EXCEPT ![p] = "rename"]
      /\ UNCHANGED <<dir, placed, manifest, disk, savedManifest, savedDisk,
                     lock, op, seen, rev>>
  BY DEF FillTemp, Goto
<1>2. TypeOK'
  BY <1>1, ReadyToPublish DEF IInv, TypeOK, Stages
<1>3. DiskInv'
  BY <1>1 DEF IInv, DiskInv, Backed
<1>4. ProcInv(p)'
  <2>1. /\ pc'[p] = "rename" /\ NewManifest(p)' = NewManifest(p)
    BY <1>1 DEF IInv, TypeOK, NewManifest
  <2> QED
    BY <1>1, <2>1, ReadyToPublish
       DEF ProcInv, StageInv, SeenInv, RevisionInv, PublishInv, Writer,
           Locked, Stages, Writing, Published, OwnsRevision
<1>5. \A q \in Proc : q # p => pc'[q] = pc[q] /\ rev'[q] = rev[q]
  BY <1>1 DEF IInv, TypeOK
<1> QED
  BY <1>1, <1>2, <1>3, <1>4, <1>5, ReadyToPublish, WriterStep
     DEF Locked, Stages

(* The rename is the step that publishes: the new manifest is backed by    *)
(* the writer's own revision, or by the one the old manifest pointed at.   *)
LEMMA RenameInv == ASSUME IInv, NEW p \in Proc, Rename(p) PROVE IInv'
<1>1. /\ pc[p] = "rename" /\ manifest' = temp /\ temp' = None
      /\ pc' = [pc EXCEPT ![p] = "syncman"]
      /\ UNCHANGED <<dir, placed, disk, savedManifest, savedDisk,
                     lock, op, seen, rev>>
  BY DEF Rename, Goto
<1>2. temp = NewManifest(p)
  BY <1>1 DEF IInv, ProcInv, PublishInv
<1>3. manifest' = NewManifest(p) /\ NewManifest(p) \in Manifest
  BY <1>1, <1>2, ReadyToPublish
<1>4. TypeOK'
  BY <1>1, <1>3 DEF IInv, TypeOK, Stages
<1>5. Backed(NewManifest(p))
  <2>1. CASE WritesContent(op[p])
    BY <1>1, <2>1, ReadyToPublish DEF Backed, NewManifest
  <2>2. CASE ~WritesContent(op[p])
    <3>1. manifest # None /\ manifest = seen[p] /\ op[p] \in Op /\ Writer(p)
      BY <1>1, <2>2, ReadyToPublish, OpsAreOperations
         DEF WritesContent, IsSave, Refused, Doc
    <3>2. manifest.doc \in Stored /\ Doc(manifest) = manifest.doc
      BY <3>1 DEF IInv, TypeOK, Manifest, Loadable, Doc
    <3>3. ContentOf(Applied(op[p], manifest.doc)) = ContentOf(manifest.doc)
      BY <2>2, <3>1, <3>2, MetadataKeepsContent DEF Writer
    <3>4. /\ NewManifest(p).rev = manifest.rev
          /\ NewManifest(p).doc = Applied(op[p], manifest.doc)
      BY <2>2, <3>1, <3>2 DEF NewManifest
    <3> QED
      BY <3>1, <3>3, <3>4 DEF IInv, DiskInv, Backed
  <2> QED  BY <2>1, <2>2
<1>6. DiskInv'
  BY <1>1, <1>3, <1>5 DEF IInv, DiskInv, Backed
<1>7. ProcInv(p)'
  <2>1. /\ pc'[p] = "syncman" /\ NewManifest(p)' = NewManifest(p)
    BY <1>1 DEF IInv, TypeOK, NewManifest
  <2>2. NewManifest(p) # None
    BY <1>3, SentinelsAreNotFiles
  <2> QED
    BY <1>1, <1>3, <2>1, <2>2, ReadyToPublish
       DEF ProcInv, StageInv, SeenInv, RevisionInv, PublishInv, Writer,
           Locked, Stages, Writing, Published, OwnsRevision
<1>8. \A q \in Proc : q # p => pc'[q] = pc[q] /\ rev'[q] = rev[q]
  BY <1>1 DEF IInv, TypeOK
<1> QED
  BY <1>1, <1>4, <1>6, <1>7, <1>8, ReadyToPublish, WriterStep
     DEF Locked, Stages

(* What holds of a writer that has published. *)
LEMMA AfterPublish ==
    ASSUME IInv, NEW p \in Proc, pc[p] \in Published
    PROVE  /\ op[p] \in Ops /\ lock[p] = LockMode(op[p]) /\ Writer(p)
           /\ manifest # None /\ manifest = NewManifest(p)
           /\ Backed(manifest)
           /\ WritesContent(op[p]) => manifest.rev = rev[p]
           /\ pc[p] = "cleanup" => /\ savedManifest = manifest
                                  /\ WritesContent(op[p])
BY DEF IInv, DiskInv, ProcInv, StageInv, PublishInv, Locked, Stages,
       Published, NewManifest

LEMMA SyncManifestInv ==
    ASSUME IInv, NEW p \in Proc, SyncManifest(p) PROVE IInv'
<1>1. /\ pc[p] = "syncman" /\ savedManifest' = manifest
      /\ pc' = [pc EXCEPT ![p] = IF WritesContent(op[p]) THEN "cleanup"
                                ELSE "reply"]
      /\ UNCHANGED <<dir, placed, manifest, temp, disk, savedDisk,
                     lock, op, seen, rev>>
  BY DEF SyncManifest, Goto
<1>2. TypeOK'
  BY <1>1 DEF IInv, TypeOK, Stages
<1>3. DiskInv'
  BY <1>1 DEF IInv, DiskInv, Backed
<1>4. ProcInv(p)'
  <2>1. /\ pc'[p] = IF WritesContent(op[p]) THEN "cleanup" ELSE "reply"
        /\ NewManifest(p)' = NewManifest(p)
    BY <1>1 DEF IInv, TypeOK, NewManifest
  <2> QED
    BY <1>1, <2>1, AfterPublish
       DEF ProcInv, StageInv, SeenInv, RevisionInv, PublishInv, Writer,
           Locked, Stages, Writing, Published, OwnsRevision
<1>5. \A q \in Proc : q # p => pc'[q] = pc[q] /\ rev'[q] = rev[q]
  BY <1>1 DEF IInv, TypeOK
<1> QED
  BY <1>1, <1>2, <1>3, <1>4, <1>5, AfterPublish, WriterStep
     DEF Locked, Stages, Published

(* Cleanup removes only what neither manifest points at. *)
LEMMA RemoveRevisionInv ==
    ASSUME IInv, NEW p \in Proc, RemoveRevision(p) PROVE IInv'
<1>1. pc[p] = "cleanup"
  BY DEF RemoveRevision
<1>2. PICK r \in Rev :
        /\ r # rev[p]
        /\ disk' = [disk EXCEPT ![r] = IF @ = EmptyDir THEN None ELSE EmptyDir]
  BY DEF RemoveRevision, Stale
<1>3. UNCHANGED <<dir, placed, manifest, temp, savedManifest, savedDisk,
                  lock, pc, op, seen, rev>>
  BY DEF RemoveRevision, procVars
<1>4. TypeOK'
  BY <1>2, <1>3 DEF IInv, TypeOK, EmptyDir, Content, Optional
<1>5. /\ manifest = savedManifest /\ manifest.rev = rev[p]
      /\ Backed(manifest) /\ manifest \in Manifest
  BY <1>1, AfterPublish DEF Published, IInv, TypeOK
<1>6. DiskInv'
  BY <1>2, <1>3, <1>5 DEF IInv, TypeOK, DiskInv, Backed, Manifest
<1>7. ProcInv(p)'
  <2>1. pc'[p] = "cleanup" /\ NewManifest(p)' = NewManifest(p)
    BY <1>1, <1>3 DEF NewManifest
  <2> QED
    BY <1>1, <1>3, <2>1, AfterPublish
       DEF ProcInv, StageInv, SeenInv, RevisionInv, PublishInv, Writer,
           Locked, Stages, Writing, Published, OwnsRevision
<1> QED
  BY <1>1, <1>3, <1>4, <1>6, <1>7, AfterPublish, WriterStep
     DEF Locked, Stages, Published

LEMMA SyncCleanupInv ==
    ASSUME IInv, NEW p \in Proc, SyncCleanup(p) PROVE IInv'
<1>1. /\ pc[p] = "cleanup" /\ savedManifest' = manifest
      /\ savedDisk' = DiskSynced(rev[p])
      /\ \A r \in Rev : disk[r] # None => r = rev[p]
      /\ pc' = [pc EXCEPT ![p] = "reply"]
      /\ UNCHANGED <<dir, placed, manifest, temp, disk, lock, op, seen, rev>>
  BY DEF SyncCleanup, Stale, Goto
<1>2. DiskSynced(rev[p]) \in [Rev -> Content \cup {None}]
  BY DEF IInv, TypeOK, DiskSynced
<1>3. TypeOK'
  BY <1>1, <1>2 DEF IInv, TypeOK, Stages
<1>4. /\ manifest # None /\ manifest.rev = rev[p]
      /\ Backed(manifest) /\ manifest \in Manifest
  BY <1>1, AfterPublish DEF Published, IInv, TypeOK
<1>5. DiskInv'
  <2>1. DiskSynced(rev[p])[manifest.rev] = disk[manifest.rev]
    BY <1>4 DEF DiskSynced, Manifest
  <2> QED  BY <1>1, <1>4, <2>1 DEF DiskInv, Backed
<1>6. ProcInv(p)'
  <2>1. pc'[p] = "reply" /\ NewManifest(p)' = NewManifest(p)
    BY <1>1 DEF IInv, TypeOK, NewManifest
  <2> QED
    BY <1>1, <1>4, <2>1, AfterPublish
       DEF ProcInv, StageInv, SeenInv, RevisionInv, PublishInv, Writer,
           Locked, Stages, Writing, Published, OwnsRevision
<1>7. \A q \in Proc : q # p => pc'[q] = pc[q] /\ rev'[q] = rev[q]
  BY <1>1 DEF IInv, TypeOK
<1> QED
  BY <1>1, <1>3, <1>5, <1>6, <1>7, AfterPublish, WriterStep
     DEF Locked, Stages, Published

-----------------------------------------------------------------------------
(* Failures *)

LEMMA WritebackInv == ASSUME IInv, Writeback PROVE IInv'
<1>1. UNCHANGED <<dir, manifest, temp, disk, savedManifest, savedDisk,
                  lock, pc, op, seen, rev>> /\ placed' = TRUE
  BY DEF Writeback, procVars
<1>2. TypeOK' /\ LockInv' /\ DiskInv'
  BY <1>1 DEF IInv, TypeOK, LockInv, DiskInv, Backed
<1>3. \A q \in Proc : ProcInv(q)'
  BY <1>1, Frame DEF IInv
<1> QED  BY <1>2, <1>3 DEF IInv

LEMMA NothingRunsInv ==
    ASSUME NothingRuns PROVE LockInv' /\ \A q \in Proc : ProcInv(q)'
BY IdleInv DEF NothingRuns, LockInv

LEMMA PowerLossInv == ASSUME IInv, PowerLoss PROVE IInv'
<1>1. PICK d \in [Rev -> UNION {Survivors(r) : r \in Rev}] :
        (\A r \in Rev : d[r] \in Survivors(r)) /\ disk' = d
  BY DEF PowerLoss
<1>2. \A r \in Rev : Survivors(r) \subseteq Content \cup {None}
  BY DEF IInv, TypeOK, Survivors, EmptyDir, Content, Optional
<1>3. disk' \in [Rev -> Content \cup {None}]
  BY <1>1, <1>2
<1>4. /\ manifest' \in {manifest, savedManifest}
      /\ savedManifest' = manifest' /\ savedDisk' = disk'
      /\ temp' \in {None, Torn} /\ UNCHANGED <<dir, placed>>
  BY DEF PowerLoss
<1>5. TypeOK'
  BY <1>3, <1>4 DEF IInv, TypeOK, PowerLoss, NothingRuns, Stages
<1>6. \A m \in Manifest \cup {None} :
        Backed(m) /\ m # None => disk'[m.rev] = ContentOf(m.doc)
  BY <1>1 DEF Survivors, Backed, Manifest
<1>7. DiskInv'
  BY <1>4, <1>6 DEF IInv, TypeOK, DiskInv, Backed
<1> QED  BY <1>5, <1>7, NothingRunsInv DEF IInv, PowerLoss

LEMMA PowerLossBeforePlacedInv ==
    ASSUME IInv, PowerLossBeforePlaced PROVE IInv'
<1>1. TypeOK'
  BY DEF IInv, TypeOK, PowerLossBeforePlaced, NothingRuns, Stages
<1>2. DiskInv'
  BY DEF PowerLossBeforePlaced, DiskInv, Backed
<1> QED
  BY <1>1, <1>2, NothingRunsInv DEF IInv, PowerLossBeforePlaced

-----------------------------------------------------------------------------
LEMMA InitInv == Init => IInv
<1> SUFFICES ASSUME Init PROVE IInv
  OBVIOUS
<1>1. TypeOK
  BY DEF Init, TypeOK, Stages
<1>2. LockInv /\ DiskInv
  BY DEF Init, LockInv, DiskInv, Backed
<1>3. ASSUME NEW q \in Proc PROVE ProcInv(q)
  BY DEF Init, ProcInv, StageInv, SeenInv, RevisionInv, PublishInv, Writer,
         Locked, Stages, Writing, Published, OwnsRevision
<1> QED  BY <1>1, <1>2, <1>3 DEF IInv

LEMMA StepInv == ASSUME IInv, NEW p \in Proc, Step(p) PROVE IInv'
<1>1. CASE OpenLock(p)        BY <1>1, OpenLockInv
<1>2. CASE Acquire(p)         BY <1>2, AcquireInv
<1>3. CASE Release(p)         BY <1>3, LeaveInv DEF Release, Goto
<1>4. CASE ReadManifest(p)    BY <1>4, ReadManifestInv
<1>5. CASE ReadContent(p)     BY <1>5, ReadContentInv
<1>6. CASE Decide(p)          BY <1>6, DecideInv
<1>7. CASE MakeRevision(p)    BY <1>7, MakeRevisionInv
<1>8. CASE WriteFiles(p)      BY <1>8, WriteFilesInv
<1>9. CASE SyncRevision(p)    BY <1>9, SyncRevisionInv
<1>10. CASE OpenTemp(p)       BY <1>10, OpenTempInv
<1>11. CASE FillTemp(p)       BY <1>11, FillTempInv
<1>12. CASE Rename(p)         BY <1>12, RenameInv
<1>13. CASE SyncManifest(p)   BY <1>13, SyncManifestInv
<1>14. CASE RemoveRevision(p) BY <1>14, RemoveRevisionInv
<1>15. CASE SyncCleanup(p)    BY <1>15, SyncCleanupInv
<1> QED
  BY <1>1, <1>2, <1>3, <1>4, <1>5, <1>6, <1>7, <1>8, <1>9, <1>10, <1>11,
     <1>12, <1>13, <1>14, <1>15 DEF Step

LEMMA NextInv == IInv /\ [Next]_vars => IInv'
<1> SUFFICES ASSUME IInv, [Next]_vars PROVE IInv'
  OBVIOUS
<1>1. CASE UNCHANGED vars
  <2>1. UNCHANGED <<dir, placed, manifest, temp, disk, savedManifest,
                    savedDisk, lock, pc, op, seen, rev>>
    BY <1>1 DEF vars, diskVars, procVars
  <2>2. TypeOK' /\ LockInv' /\ DiskInv'
    BY <2>1 DEF IInv, TypeOK, LockInv, DiskInv, Backed
  <2>3. \A q \in Proc : ProcInv(q)'
    BY <2>1, Frame DEF IInv
  <2> QED  BY <2>2, <2>3 DEF IInv
<1>2. ASSUME NEW p \in Proc, Begin(p) PROVE IInv'
  BY <1>2, BeginInv
<1>3. ASSUME NEW p \in Proc, Step(p) PROVE IInv'
  BY <1>3, StepInv
<1>4. ASSUME NEW p \in Proc, Crash(p) PROVE IInv'
  BY <1>4, LeaveInv DEF Crash, Goto
<1>5. CASE Writeback              BY <1>5, WritebackInv
<1>6. CASE PowerLoss              BY <1>6, PowerLossInv
<1>7. CASE PowerLossBeforePlaced  BY <1>7, PowerLossBeforePlacedInv
<1> QED  BY <1>1, <1>2, <1>3, <1>4, <1>5, <1>6, <1>7 DEF Next

(* IInv holds in every state of every behaviour. *)
THEOREM Inductive == Spec => []IInv
<1>1. Init => IInv                  BY InitInv
<1>2. IInv /\ [Next]_vars => IInv'  BY NextInv
<1> QED  BY <1>1, <1>2, PTL DEF Spec

(* Every variable keeps its type; in particular only manifests that        *)
(* from_dict accepts are ever published.                                   *)
THEOREM TypeCorrect == Spec => []TypeOK
<1>1. IInv => TypeOK  BY DEF IInv
<1> QED  BY <1>1, Inductive, PTL

(* record.json always points at a complete revision, through crashes,      *)
(* cleanup and power losses, however many processes share the record.      *)
THEOREM ManifestAlwaysIntact == Spec => []ManifestIntact
<1>1. IInv => ManifestIntact  BY DEF IInv, DiskInv, Backed, ManifestIntact
<1> QED  BY <1>1, Inductive, PTL

(* JobRecordIntegrityError means record.json was missing, nothing else. *)
THEOREM ReadsAreWhole == Spec => []NoTornRead
<1>1. IInv => NoTornRead  BY DEF IInv, ProcInv, SeenInv, NoTornRead
<1> QED  BY <1>1, Inductive, PTL

(* Operations answer with the record as published when they answer. *)
THEOREM AnswersAreCurrent == Spec => []AnswerIsCurrent
<1>1. ASSUME IInv, NEW p \in Proc, pc[p] = "reply"
      PROVE  Doc(manifest) = IF IsRead(op[p]) THEN Doc(seen[p])
                             ELSE Applied(op[p], Doc(seen[p]))
  BY <1>1 DEF IInv, ProcInv, SeenInv, PublishInv, Writer, NewManifest, Doc
<1>2. IInv => AnswerIsCurrent  BY <1>1 DEF AnswerIsCurrent
<1> QED  BY <1>2, Inductive, PTL

(* Revisions are removed and callers answered only after the new manifest  *)
(* is safe from a power loss.                                              *)
THEOREM AnswersAreDurable == Spec => []AnswerIsDurable
<1>1. IInv => AnswerIsDurable
  BY DEF IInv, ProcInv, PublishInv, Writer, AnswerIsDurable
<1> QED  BY <1>1, Inductive, PTL

(* A content write that answers has left exactly one revision. *)
THEOREM LatestOnly == Spec => []OnlyLatestRevision
<1>1. IInv => OnlyLatestRevision
  BY DEF IInv, ProcInv, PublishInv, OnlyLatestRevision
<1> QED  BY <1>1, Inductive, PTL

-----------------------------------------------------------------------------
(* The refinement: the files and locks implement the atomic record of       *)
(* RecordSpec.  Its operators are those of RecordModel under another name.  *)
LEMMA SameOperations ==
    \A o, cur : /\ Atomic!IsRead(o) = IsRead(o)
                /\ Atomic!Refused(o, cur) = Refused(o, cur)
                /\ Atomic!Applied(o, cur) = Applied(o, cur)
<1> TAKE o, cur
<1>1. Atomic!IsRead(o) = IsRead(o) /\ Atomic!IsSave(o) = IsSave(o)
  BY DEF Atomic!IsRead, IsRead, Atomic!IsSave, IsSave
<1>2. Atomic!Refused(o, cur) = Refused(o, cur)
  BY <1>1 DEF Atomic!Refused, Refused
<1>3. \A new, old : Atomic!Or(new, old) = Or(new, old)
  BY DEF Atomic!Or, Or
<1>4. Atomic!Saved(o, cur) = Saved(o, cur)
  BY DEF Atomic!Saved, Saved
<1>5. Atomic!Screened(o, cur) = Screened(o, cur)
  BY <1>3 DEF Atomic!Screened, Screened
<1>6. Atomic!JdReplaced(o, cur) = JdReplaced(o, cur)
  BY DEF Atomic!JdReplaced, JdReplaced
<1>7. /\ Atomic!VerdictUpdated(o, cur) = VerdictUpdated(o, cur)
      /\ Atomic!PrescreenUpdated(o, cur) = PrescreenUpdated(o, cur)
  BY <1>3 DEF Atomic!VerdictUpdated, VerdictUpdated, Atomic!PrescreenUpdated,
              PrescreenUpdated
<1>8. Atomic!StatusUpdated(o, cur) = StatusUpdated(o, cur)
  BY <1>3 DEF Atomic!StatusUpdated, StatusUpdated
<1>9. Atomic!Applied(o, cur) = Applied(o, cur)
  BY <1>1, <1>4, <1>5, <1>6, <1>7, <1>8 DEF Atomic!Applied, Applied
<1> QED  BY <1>1, <1>2, <1>9

(* What clients see of a manifest is its document.                          *)
LEMMA VisibleIsDoc ==
    ASSUME NEW m \in Manifest \cup {None}
    PROVE  Visible(m) = Doc(m)
BY SentinelsAreNotFiles DEF Visible, Doc

(* The operation takes effect when its manifest is renamed into place.      *)
LEMMA RenameWrites ==
    ASSUME IInv, IInv', NEW p \in Proc, Rename(p)
    PROVE  \E o \in Ops : Atomic!Write(o)
<1>1. pc[p] = "rename" /\ manifest' = temp /\ UNCHANGED <<savedManifest, placed>>
  BY DEF Rename
<1>2. /\ op[p] \in Ops /\ ~IsRead(op[p])
      /\ seen[p] = manifest /\ ~Refused(op[p], Doc(manifest))
      /\ NewManifest(p) \in Manifest
  BY <1>1, ReadyToPublish DEF Writer
<1>3. manifest' = NewManifest(p)
  BY <1>1 DEF IInv, ProcInv, PublishInv
<1>4. PICK o \in Ops : o = op[p]
  BY <1>2
<1>5. Doc(manifest') = Applied(o, Doc(manifest))
  <2>1. NewManifest(p).doc = Applied(o, Doc(manifest))
    BY <1>2, <1>4 DEF NewManifest
  <2>2. manifest' # None
    BY <1>2, <1>3, SentinelsAreNotFiles
  <2> QED  BY <1>3, <2>1, <2>2 DEF Doc
<1>6. Visible(manifest) = Doc(manifest) /\ Visible(manifest') = Doc(manifest')
  BY VisibleIsDoc DEF IInv, TypeOK
<1>7. UNCHANGED Visible(savedManifest)
  BY <1>1 DEF Visible
<1>8. /\ ~Atomic!IsRead(o)
      /\ ~Atomic!Refused(o, Visible(manifest))
      /\ Visible(manifest') = Atomic!Applied(o, Visible(manifest))
  BY <1>2, <1>4, <1>5, <1>6, SameOperations
<1>9. Atomic!Write(o)
  BY <1>1, <1>7, <1>8, Zenon DEF Atomic!Write
<1> QED  BY <1>9

(* Nothing else changes what clients see: an fsync makes it durable, a      *)
(* power loss falls back on what was, and every other step is none.         *)
LEMMA StepRefines ==
    ASSUME IInv, IInv', [Next]_vars
    PROVE  [Atomic!Next]_(Atomic!vars)
<1>1. CASE \E p \in Proc : Rename(p)
  BY <1>1, RenameWrites DEF Atomic!Next
<1>2. CASE \E p \in Proc : SyncRevision(p) \/ SyncManifest(p) \/ SyncCleanup(p)
  <2>1. savedManifest' = manifest /\ UNCHANGED <<manifest, placed>>
    BY <1>2 DEF SyncRevision, SyncManifest, SyncCleanup
  <2>2. Visible(savedManifest)' = Visible(manifest) /\ UNCHANGED Visible(manifest)
    BY <2>1 DEF Visible
  <2>3. Atomic!MakeDurable
    BY <2>1, <2>2 DEF Atomic!MakeDurable
  <2> QED  BY <2>3 DEF Atomic!Next
<1>3. CASE Writeback
  <2>1. placed' = TRUE /\ UNCHANGED <<manifest, savedManifest>>
    BY <1>3 DEF Writeback
  <2>2. UNCHANGED <<Visible(manifest), Visible(savedManifest)>>
    BY <2>1 DEF Visible
  <2>3. Atomic!Place
    BY <2>1, <2>2 DEF Atomic!Place
  <2> QED  BY <2>3 DEF Atomic!Next
<1>4. CASE PowerLoss
  <2>1. /\ manifest' = manifest \/ manifest' = savedManifest
        /\ savedManifest' = manifest' /\ UNCHANGED placed
    BY <1>4 DEF PowerLoss
  <2>2. /\ \/ Visible(manifest)' = Visible(manifest)
           \/ Visible(manifest)' = Visible(savedManifest)
        /\ Visible(savedManifest)' = Visible(manifest)'
    BY <2>1 DEF Visible
  <2>3. Atomic!PowerLoss
    BY <2>1, <2>2 DEF Atomic!PowerLoss
  <2> QED  BY <2>3 DEF Atomic!Next
<1>5. CASE PowerLossBeforePlaced
  <2>1. ~placed /\ manifest' = None /\ savedManifest' = None /\ UNCHANGED placed
    BY <1>5 DEF PowerLossBeforePlaced
  <2>2. Visible(manifest)' = None /\ Visible(savedManifest)' = None
    BY <2>1 DEF Visible
  <2>3. Atomic!PowerLoss
    BY <2>1, <2>2 DEF Atomic!PowerLoss
  <2> QED  BY <2>3 DEF Atomic!Next
<1>6. CASE UNCHANGED <<manifest, savedManifest, placed>>
  <2>1. UNCHANGED <<Visible(manifest), Visible(savedManifest), placed>>
    BY <1>6 DEF Visible
  <2> QED  BY <2>1 DEF Atomic!vars
<1>7. ASSUME NEW p \in Proc, Begin(p) \/ Crash(p) \/ OpenLock(p) \/ Acquire(p)
                \/ Release(p) \/ ReadManifest(p) \/ ReadContent(p) \/ Decide(p)
                \/ MakeRevision(p) \/ WriteFiles(p) \/ OpenTemp(p) \/ FillTemp(p)
                \/ RemoveRevision(p)
      PROVE  UNCHANGED <<manifest, savedManifest, placed>>
  BY <1>7 DEF Begin, Crash, OpenLock, Acquire, Release, ReadManifest, ReadContent,
         Decide, MakeRevision, WriteFiles, OpenTemp, FillTemp, RemoveRevision, diskVars
<1>8. CASE UNCHANGED vars
  BY <1>6, <1>8 DEF vars, diskVars
<1> QED
  BY <1>1, <1>2, <1>3, <1>4, <1>5, <1>6, <1>7, <1>8 DEF Next, Step

(* JDRecordRepository implements an atomic record: whatever its callers,    *)
(* crashes and power losses, clients see the record as if every write took  *)
(* effect at once and against the record as it was, for any processes,      *)
(* revisions and operations.                                                *)
THEOREM ImplementsAtomic == Spec => ImplementsAtomicRecord
<1>1. Init => Atomic!Init
  BY DEF Init, Atomic!Init, Visible
<1>2. IInv /\ IInv' /\ [Next]_vars => [Atomic!Next]_(Atomic!vars)
  BY StepRefines
<1>3. Spec => []IInv
  BY Inductive
<1> QED  BY <1>1, <1>2, <1>3, PTL DEF Spec, ImplementsAtomicRecord, Atomic!Spec
=============================================================================
