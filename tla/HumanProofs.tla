----------------------------- MODULE HumanProofs -----------------------------
(* Proofs about the tools whose files a human decides about: the capture of titles,
   the evaluation of a filter against labels, the proposals of the portfolio and
   the validation of its catalog.  For each an inductive invariant, then the
   property that follows from it, for any number of commands, files and commits. *)
EXTENDS SemanticCapture, SemanticEval, Proposals, ResearchCatalog, SequenceTheorems, TLAPS

-----------------------------------------------------------------------------
(* SemanticCapture: the queue of a capture is whole.                         *)
SourceState == [complete : BOOLEAN, left : Nat]

CaptureTypeOK ==
    /\ sources \in [Platforms -> SourceState]
    /\ incomplete \in 0 .. 3
    /\ filter \in {"absent", "working", "disabled"}

(* A severity is on record for whatever makes the queue less than whole, and *)
(* once there is a queue, nothing is left to ask.                            *)
Remembered ==
    incomplete = NoError => /\ \A p \in Platforms : sources[p].complete
                            /\ filter # "disabled"
CaptureInv ==
    /\ CaptureTypeOK
    /\ Remembered
    /\ filter = "working" => captured = found
    /\ queue # NoQueue => \A p \in Platforms : sources[p].left = 0
    /\ QueueIsWhole

LEMMA WorseType ==
    ASSUME NEW old \in 0 .. 3, NEW code \in 0 .. 3
    PROVE  /\ Worse(old, code) \in 0 .. 3
           /\ Worse(old, code) = NoError <=> old = NoError /\ code = NoError
BY CaptureAssumption DEF Worse

LEMMA CaptureInitHolds == CaptureInit => CaptureInv
BY CaptureAssumption DEF CaptureInit, CaptureInv, CaptureTypeOK, SourceState, Remembered, QueueIsWhole

LEMMA FailsKeeps ==
    ASSUME CaptureInv, NEW p \in Platforms, Fails(p)
    PROVE  CaptureInv'
<1>1. queue = NoQueue /\ queue' = NoQueue
  BY DEF CaptureInv, CaptureTypeOK, SourceState, Fails
<1>2. incomplete' \in 0 .. 3 /\ incomplete' # NoError
  BY CaptureAssumption, WorseType DEF CaptureInv, CaptureTypeOK, Fails
<1>3. sources' \in [Platforms -> SourceState]
  BY DEF CaptureInv, CaptureTypeOK, SourceState, Fails, Outcome
<1> QED  BY <1>1, <1>2, <1>3 DEF CaptureInv, CaptureTypeOK, Remembered, QueueIsWhole, Fails

LEMMA BatchKeeps ==
    ASSUME CaptureInv, NEW p \in Platforms, NEW items \in SUBSET Shown,
           NEW complete \in BOOLEAN, NEW then \in {"absent", "working", "disabled"},
           Batch(p, items, complete, then)
    PROVE  CaptureInv'
<1> DEFINE eligible == items \ NotOurs
           cut == IF complete THEN NoError ELSE 2
           off == IF then = "disabled" /\ eligible # {} THEN 1 ELSE NoError
<1>1. queue = NoQueue /\ queue' = NoQueue
  BY DEF CaptureInv, CaptureTypeOK, SourceState, Batch
<1>2. /\ incomplete' \in 0 .. 3
      /\ incomplete' = NoError => incomplete = NoError /\ complete /\ off = NoError
  <2>1. cut \in 0 .. 3 /\ off \in 0 .. 3 /\ incomplete \in 0 .. 3
    BY CaptureAssumption DEF CaptureInv, CaptureTypeOK
  <2>2. Worse(incomplete, cut) \in 0 .. 3
    BY <2>1, WorseType
  <2>3. incomplete' = Worse(Worse(incomplete, cut), off)
    BY DEF Batch
  <2> QED  BY <2>1, <2>2, <2>3, WorseType, CaptureAssumption
<1>3. /\ sources[p] \in SourceState
      /\ sources' = [sources EXCEPT ![p] = Outcome(sources[p], complete, sources[p].left - 1)]
      /\ Outcome(sources[p], complete, sources[p].left - 1) \in SourceState
  BY DEF CaptureInv, CaptureTypeOK, SourceState, Batch, Outcome
<1>4. sources' \in [Platforms -> SourceState]
  BY <1>3 DEF CaptureInv, CaptureTypeOK
<1>5. Remembered'
  <2> SUFFICES ASSUME incomplete' = NoError
               PROVE  (\A q \in Platforms : sources'[q].complete) /\ filter' # "disabled"
    BY DEF Remembered
  <2>1. complete /\ off = NoError /\ (\A q \in Platforms : sources[q].complete)
        /\ filter # "disabled"
    BY <1>2 DEF CaptureInv, Remembered
  <2>2. \A q \in Platforms : sources'[q].complete
    BY <1>3, <2>1 DEF CaptureInv, CaptureTypeOK, Outcome
  <2>3. filter' # "disabled"
    BY <2>1, CaptureAssumption DEF Batch
  <2> QED  BY <2>2, <2>3
<1>6. filter' = "working" => captured' = found'
  BY DEF Batch, Captured, CaptureInv
<1> QED  BY <1>1, <1>2, <1>4, <1>5, <1>6 DEF CaptureInv, CaptureTypeOK, QueueIsWhole, Batch

LEMMA PublishQueueKeeps == CaptureInv /\ PublishQueue => CaptureInv'
BY DEF CaptureInv, CaptureTypeOK, Remembered, QueueIsWhole, PublishQueue

LEMMA CaptureInvariant == CaptureSpec => []CaptureInv
<1>1. CaptureInv /\ [CaptureNext]_captureVars => CaptureInv'
  <2> SUFFICES ASSUME CaptureInv, [CaptureNext]_captureVars PROVE CaptureInv'
    OBVIOUS
  <2>1. CASE \E p \in Platforms : Fails(p)
    BY <2>1, FailsKeeps
  <2>2. CASE \E p \in Platforms, items \in SUBSET Shown, complete \in BOOLEAN,
                then \in {"absent", "working", "disabled"} : Batch(p, items, complete, then)
    BY <2>2, BatchKeeps
  <2>3. CASE PublishQueue
    BY <2>3, PublishQueueKeeps
  <2>4. CASE UNCHANGED captureVars
    BY <2>4 DEF CaptureInv, CaptureTypeOK, Remembered, QueueIsWhole, captureVars
  <2> QED  BY <2>1, <2>2, <2>3, <2>4 DEF CaptureNext
<1> QED  BY <1>1, CaptureInitHolds, PTL DEF CaptureSpec

(* The queue a capture publishes is whole, for any platforms, titles and    *)
(* numbers of queries (SemanticEvalCaptureSink.publish).                    *)
THEOREM QueuesAreWhole == CaptureSpec => []QueueIsWhole
<1>1. CaptureInv => QueueIsWhole
  BY DEF CaptureInv
<1> QED  BY <1>1, CaptureInvariant, PTL

-----------------------------------------------------------------------------
(* SemanticEval: what authorises a change of the filter is sealed.           *)
Labelling == [Case -> {Keep, Reject, Unlabelled}]
Dataset(sealed) == [labels : Labelling, gold : BOOLEAN, lock : {Unsealed} \cup sealed]

(* what AuthorizedIsSealed asks of one file                                 *)
ToKeep(d) == {c \in Canonical : d.labels[c] = Keep /\ FamilyOf[c] \in Holdout}
Tolerates(d, rejected) ==
    Cardinality({FamilyOf[c] : c \in ToKeep(d) \cap rejected})
        < Tolerated[Cardinality({FamilyOf[c] : c \in ToKeep(d)})]
Sealed(f, sealed) ==
    f.authorizes =>
        /\ f.data.gold /\ LockDigest(f.data.labels) \in sealed
        /\ Tolerates(f.data, f.rejected)
        /\ \A i \in DOMAIN f.of : f.of[i].data.labels = f.data.labels /\ f.of[i].data.gold

(* The lock of a dataset is there because a human sealed it, also in the    *)
(* copy a command has read.                                                 *)
EvalInv ==
    /\ dataset \in Dataset(seals)
    /\ DOMAIN reports = Names
    /\ DOMAIN at = Runners
    /\ DOMAIN job = Runners
    /\ \A r \in Runners : at[r] \in {"run", "compare"} => job[r].data \in Dataset(seals)
    /\ \A f \in ReportFiles : Sealed(f, seals)

LEMMA InvIsSealed == EvalInv => AuthorizedIsSealed
BY DEF EvalInv, AuthorizedIsSealed, Sealed, Tolerates, ToKeep

LEMMA LockIsSeal ==
    ASSUME NEW sealed, NEW d \in Dataset(sealed), Locked(d)
    PROVE  LockDigest(d.labels) \in sealed
<1>1. LockDigest(d.labels) # Unsealed
  BY UnsealedAssumption DEF Dataset, Labelling
<1> QED  BY <1>1 DEF Locked, Dataset

(* A score that authorises is sealed, and so is a comparison of two reports *)
(* that are bound to its dataset.                                           *)
LEMMA BoundOfScore ==
    ASSUME NEW d, NEW rejected, BoundHolds(d, rejected)
    PROVE  Tolerates(d, rejected)
<1>1. {FamilyOf[c] : c \in ToKeep(d)} = KeepFamilies(d)
  BY DEF KeepFamilies, Families, HasKeep, Members, ToKeep
<1>2. {FamilyOf[c] : c \in ToKeep(d) \cap rejected} = MissedFamilies(d, rejected)
  BY DEF MissedFamilies, Families, MissedKeep, Members, ToKeep
<1> QED  BY <1>1, <1>2 DEF BoundHolds, Tolerates

LEMMA ScoreAuthorizes ==
    ASSUME NEW sealed, NEW d \in Dataset(sealed), NEW rejected, NEW broken,
           Score(d, rejected, broken).authorizes
    PROVE  d.gold /\ LockDigest(d.labels) \in sealed /\ BoundHolds(d, rejected)
<1>1. Status(d, rejected) = "pass" /\ d.gold /\ Locked(d)
  BY DEF Score
<1>2. BoundHolds(d, rejected)
  BY <1>1 DEF Status
<1> QED  BY <1>1, <1>2, LockIsSeal

LEMMA ScoreIsSealed ==
    ASSUME NEW sealed, NEW d \in Dataset(sealed), NEW rejected, NEW broken
    PROVE  Sealed(Score(d, rejected, broken), sealed)
<1> DEFINE f == Score(d, rejected, broken)
<1>1. f.data = d /\ f.rejected = rejected /\ f.of = <<>>
  BY DEF Score
<1>2. DOMAIN f.of = {}
  BY <1>1
<1> HIDE DEF f
<1>3. ASSUME f.authorizes
      PROVE  d.gold /\ LockDigest(d.labels) \in sealed /\ BoundHolds(d, rejected)
  BY <1>3, ScoreAuthorizes DEF f
<1>4. Sealed(f, sealed)
  BY <1>1, <1>2, <1>3, BoundOfScore DEF Sealed
<1> QED  BY <1>4 DEF f

LEMMA ComparisonIsSealed ==
    ASSUME NEW sealed, NEW d \in Dataset(sealed), NEW m, NEW n, Bound(m, d), Bound(n, d)
    PROVE  Sealed(Comparison(d, m, n), sealed)
<1> DEFINE f == Comparison(d, m, n)
<1>1. f.data = d /\ f.rejected = n.rejected /\ f.of = <<m, n>>
  BY DEF Comparison
<1>2. \A i \in DOMAIN f.of : f.of[i] \in {m, n}
  BY <1>1
<1>3. f.authorizes => Score(d, n.rejected, FALSE).authorizes
  BY DEF Comparison
<1>4. \A r \in {m, n} : r.data.labels = d.labels /\ r.data.gold = d.gold
  BY DEF Bound, SameCases
<1> HIDE DEF f
<1>5. ASSUME f.authorizes
      PROVE  d.gold /\ LockDigest(d.labels) \in sealed /\ BoundHolds(d, n.rejected)
  BY <1>3, <1>5, ScoreAuthorizes
<1>6. Sealed(f, sealed)
  BY <1>1, <1>2, <1>4, <1>5, BoundOfScore DEF Sealed
<1> QED  BY <1>6 DEF f

(* More seals take nothing back.                                            *)
LEMMA MoreSeals ==
    ASSUME EvalInv, seals \subseteq seals', dataset' \in Dataset(seals'),
           UNCHANGED <<reports, at, job>>
    PROVE  EvalInv'
<1>1. ASSUME NEW d \in Dataset(seals) PROVE d \in Dataset(seals')
  BY <1>1 DEF Dataset
<1>2. ASSUME NEW f, Sealed(f, seals) PROVE Sealed(f, seals')
  BY <1>2 DEF Sealed
<1> QED  BY <1>1, <1>2 DEF EvalInv, ReportFiles

LEMMA OneMoreReport ==
    ASSUME EvalInv, NEW r \in Runners, Finishes(r), UNCHANGED <<dataset, seals>>,
           \/ UNCHANGED reports
           \/ \E n, report : Sealed(report, seals) /\ Publish(n, report)
    PROVE  EvalInv'
<1>1. /\ DOMAIN at' = Runners /\ DOMAIN job' = Runners
      /\ \A q \in Runners : at'[q] \in {"run", "compare"} => job'[q] = job[q] /\ at'[q] = at[q]
  BY DEF EvalInv, Finishes
<1>2. DOMAIN reports' = Names /\ \A f \in ReportFiles' : Sealed(f, seals)
  BY DEF EvalInv, ReportFiles, Publish
<1> QED  BY <1>1, <1>2 DEF EvalInv

LEMMA EvalInitHolds == EvalInit => EvalInv
<1> SUFFICES ASSUME EvalInit PROVE EvalInv
  OBVIOUS
<1>1. dataset \in Dataset(seals)
  BY EvalAssumption DEF EvalInit, Dataset, Labelling
<1> QED  BY <1>1 DEF EvalInit, EvalInv, ReportFiles

LEMMA EvalStepKeeps ==
    ASSUME EvalInv, NEW r \in Runners, EvalStep(r)
    PROVE  EvalInv'
<1>1. CASE \E n \in Names : ReadDataset(r, n)
  <2> PICK n \in Names : ReadDataset(r, n)
    BY <1>1
  <2>1. /\ job' = [job EXCEPT ![r] = [data |-> dataset, name |-> n]]
        /\ UNCHANGED <<dataset, seals, reports>>
        /\ \E next : at' = [at EXCEPT ![r] = next]
    BY DEF ReadDataset
  <2>2. \A q \in Runners : at'[q] \in {"run", "compare"} => job'[q].data \in Dataset(seals)
    BY <2>1 DEF EvalInv
  <2> QED  BY <2>1, <2>2 DEF EvalInv, ReportFiles
<1>2. CASE Evaluate(r)
  <2>1. job[r].data \in Dataset(seals)
    BY <1>2 DEF EvalInv, Evaluate
  <2>2. CASE UNCHANGED reports
    BY <1>2, <2>2, OneMoreReport DEF Evaluate
  <2>3. CASE \E answer \in UNION {Answers(failed) : failed \in DisabledAtFirst} :
                Publish(job[r].name, Score(job[r].data, answer.rejected, answer.failed))
    <3> PICK answer : Publish(job[r].name, Score(job[r].data, answer.rejected, answer.failed))
      BY <2>3
    <3>1. Sealed(Score(job[r].data, answer.rejected, answer.failed), seals)
      BY <2>1, ScoreIsSealed
    <3> QED  BY <1>2, <3>1, OneMoreReport DEF Evaluate
  <2> QED  BY <1>2, <2>2, <2>3 DEF Evaluate
<1>3. CASE \E m, n \in Names : Compare(r, m, n)
  <2> PICK m \in Names, n \in Names : Compare(r, m, n)
    BY <1>3
  <2>1. job[r].data \in Dataset(seals)
    BY DEF EvalInv, Compare
  <2>2. CASE UNCHANGED reports
    BY <2>2, OneMoreReport DEF Compare
  <2>3. CASE ~UNCHANGED reports
    <3>1. /\ Bound(reports[m], job[r].data) /\ Bound(reports[n], job[r].data)
          /\ Publish(job[r].name, Comparison(job[r].data, reports[m], reports[n]))
      BY <2>3 DEF Compare
    <3>2. Sealed(Comparison(job[r].data, reports[m], reports[n]), seals)
      BY <2>1, <3>1, ComparisonIsSealed
    <3> QED  BY <3>1, <3>2, OneMoreReport DEF Compare
  <2> QED  BY <2>2, <2>3
<1> QED  BY <1>1, <1>2, <1>3 DEF EvalStep

LEMMA EvalInvariant == EvalSpec => []EvalInv
<1>1. EvalInv /\ [EvalNext]_evalVars => EvalInv'
  <2> SUFFICES ASSUME EvalInv, [EvalNext]_evalVars PROVE EvalInv'
    OBVIOUS
  <2>1. ASSUME NEW c \in Case, NEW l \in {Keep, Reject}, Label(c, l) PROVE EvalInv'
    <3>1. dataset' \in Dataset(seals)
      BY <2>1 DEF Label, EvalInv, Dataset, Labelling
    <3> QED  BY <2>1, <3>1, MoreSeals DEF Label
  <2>2. CASE PutSeal
    <3>1. dataset' \in Dataset(seals')
      BY <2>2 DEF PutSeal, EvalInv, Dataset
    <3> QED  BY <2>2, <3>1, MoreSeals DEF PutSeal
  <2>3. CASE \E r \in Runners : EvalStep(r)
    BY <2>3, EvalStepKeeps
  <2>4. CASE UNCHANGED evalVars
    BY <2>4, MoreSeals DEF evalVars, EvalInv
  <2> QED  BY <2>1, <2>2, <2>3, <2>4 DEF EvalNext
<1> QED  BY <1>1, EvalInitHolds, PTL DEF EvalSpec

(* What authorises a change of the filter rests on sealed labels, and a     *)
(* comparison on two reports of those labels, for any dataset, any tables   *)
(* and any number of commands and seals (_build_report, compare_reports).   *)
THEOREM AuthorizedAreSealed == EvalSpec => []AuthorizedIsSealed
<1> QED  BY InvIsSealed, EvalInvariant, PTL

-----------------------------------------------------------------------------
(* Proposals: the revisions of a source are one history.                     *)
Preparing == {"check", "snapshot", "record", "compensate", "unlink"}
LocalState ==
    [at : Preparing \cup {"idle", "supersede", "publish", "write"}, id : Proposal \cup {None},
     draft : {None} \cup Draft \cup UNION {[B -> Draft] : B \in SUBSET Proposal},
     batch : {None} \cup SUBSET Proposal]

ProposalTypeOK ==
    /\ text \in [Source -> Text]
    /\ record \in [Proposal -> Draft \cup {None}]
    /\ snapshot \in [Proposal -> [Source -> Text \cup {None}]]
    /\ review \in [Proposal -> Nat \cup {None}]
    /\ process \in [Process -> LocalState]
    /\ spent \in [edits : Nat, faults : Nat, calls : Nat]
    /\ lost \subseteq Proposal

HistoryTypeOK ==
    /\ past \in [Source -> SUBSET Text]
    /\ disturbed \in [Process -> SUBSET Source]
    /\ tangled \subseteq Source

(* A text has been in a source and is not there any more, as far as the      *)
(* source is not tangled.                                                    *)
Gone(s, t) == s \notin tangled => t \in past[s] /\ text[s] # t

(* What the check of prepare found stays true of the draft, and of the       *)
(* record made of it, up to its application: a first revision is not         *)
(* overtaken by another one without losing its source.                       *)
Rests(r) ==
    r.supersedes \notin lost \cup {None} =>
        /\ r.supersedes \in Applied(r.source)
        /\ record[r.supersedes].proposed = r.original
MayCome(r) ==
    /\ Rests(r)
    /\ r.original \in past[r.source]
    /\ r.supersedes = None /\ Applied(r.source) # {} => Gone(r.source, r.original)

RecordHolds(r) ==
    /\ r.state \in {"draft", "approved"} => MayCome(r)
    /\ r.state = "applied" => Rests(r) /\ Gone(r.source, r.original)

(* A command: while it prepares an ID no other does, and its snapshot is     *)
(* there when the record comes; a supersession holds a draft, an             *)
(* application the approved records of a batch.                              *)
PreparesAlone(c) ==
    /\ process[c].id # None <=> process[c].at \in Preparing
    /\ \A d \in Process : process[c].id # None /\ process[d].id = process[c].id => c = d
DraftHolds(c) ==
    \A r \in Draft : process[c].draft = r /\ process[c].at \in Preparing =>
        /\ r.state = "draft" /\ r.original \in past[r.source]
        /\ process[c].at # "check" => MayCome(r)
        /\ process[c].at \in {"record", "compensate"} =>
              snapshot[process[c].id][r.source] = r.original
        /\ process[c].at = "unlink" =>
              record[process[c].id] = None \/ process[c].id \in lost
(* An application holds approved proposals about different sources; once it  *)
(* compared its targets, a source has the text it compared unless it changed *)
(* since, and a record is the one it read, or that one applied by another.   *)
AppliedAs(r) == [r EXCEPT !.state = "applied"]
BatchForm(c) ==
    process[c].at \in {"publish", "write"} =>
        /\ process[c].batch \in SUBSET Proposal
        /\ process[c].draft \in [process[c].batch -> Draft]
        /\ \A p, q \in process[c].batch :
              process[c].draft[p].source = process[c].draft[q].source => p = q
WriteHolds(c, p, r) ==
    /\ \/ p \in lost \/ record[p] = r
       \/ record[p] = AppliedAs(r) /\ (r.source \in disturbed[c] \/ r.original = r.proposed)
    /\ r.source \notin disturbed[c] => text[r.source] = r.original
BatchHolds(c) ==
    \A p \in Proposal, r \in Draft :
        process[c].at \in {"publish", "write"} /\ p \in process[c].batch
            /\ process[c].draft[p] = r =>
        /\ r.state = "approved" /\ MayCome(r)
        /\ process[c].at = "write" => WriteHolds(c, p, r)
LocalHolds(c) ==
    /\ PreparesAlone(c)
    /\ process[c].at \in Preparing => process[c].draft \in Draft
    /\ DraftHolds(c)
    /\ process[c].at = "supersede" =>
          /\ process[c].draft \in Draft /\ process[c].draft.state = "draft"
          /\ \E p \in Proposal : process[c].batch = {p}
    /\ BatchForm(c) /\ BatchHolds(c)

Distinct ==
    \A p, q \in Proposal : \A s \in Source :
        p \in Applied(s) /\ q \in Applied(s) /\ p # q /\ s \notin tangled =>
            /\ record[p].original # record[q].original
            /\ record[p].supersedes # record[q].supersedes \/ record[p].supersedes \in lost

ProposalInv ==
    /\ ProposalTypeOK /\ HistoryTypeOK
    /\ \A s \in Source : text[s] \in past[s]
    /\ \A p \in Proposal, r \in Draft : record[p] = r => RecordHolds(r)
    /\ Distinct
    /\ SnapshotsBehindRecords
    /\ \A c \in Process : LocalHolds(c)

-----------------------------------------------------------------------------
(* Every step goes forward: a record that was approved stays, or is applied  *)
(* and takes the place of the text, and one that is applied stays, unless    *)
(* it is lost.                                                               *)
Forward ==
    /\ lost \subseteq lost'
    /\ \A p \in Proposal, x \in Draft :
          record[p] = x /\ x.state \in {"approved", "applied"} =>
             \/ p \in lost' \/ record'[p] = x
             \/ x.state = "approved" /\ record'[p] = AppliedAs(x)
                /\ text'[x.source] = x.proposed

(* The history grows, and says of a change that leaves its source untangled  *)
(* that the text is new.                                                     *)
LEMMA HistoryGrows ==
    ASSUME HistoryTypeOK, Remembers
    PROVE  /\ tangled \subseteq tangled'
           /\ \A s \in Source : past[s] \subseteq past'[s] /\ text'[s] \in past'[s]
           /\ \A s \in Source \ tangled' : Changes(s) => text'[s] \notin past[s]
           /\ \A s \in Source \ tangled' : text'[s] # text[s] => text'[s] \notin past[s]
BY DEF HistoryTypeOK, Remembers, Changes

LEMMA HistoryForm ==
    ASSUME HistoryTypeOK, Remembers, text' \in [Source -> Text]
    PROVE  HistoryTypeOK'
BY DEF HistoryTypeOK, Remembers

LEMMA GoneStays ==
    ASSUME HistoryTypeOK, Remembers, NEW s \in Source, NEW t, Gone(s, t)
    PROVE  Gone(s, t)'
<1> SUFFICES ASSUME s \notin tangled' PROVE t \in past'[s] /\ text'[s] # t
  BY DEF Gone
<1>1. t \in past[s] /\ text[s] # t
  BY HistoryGrows DEF Gone
<1> QED  BY <1>1, HistoryGrows

LEMMA RestsStays ==
    ASSUME ProposalTypeOK, Forward, NEW r \in Draft, Rests(r)
    PROVE  Rests(r)'
<1> SUFFICES ASSUME NEW u, u = r.supersedes, u \notin lost' \cup {None}
             PROVE  u \in Applied(r.source)' /\ record'[u].proposed = r.original
  BY DEF Rests
<1>1. u \in Applied(r.source) /\ record[u].proposed = r.original
  BY DEF Forward, Rests
<1>2. u \in Proposal /\ record[u] \in Draft /\ record[u].state = "applied"
  BY <1>1 DEF Applied, Stored, ProposalTypeOK
<1>3. PICK x \in Draft : x = record[u]
  BY <1>2
<1>4. record'[u] = x
  BY <1>2, <1>3 DEF Forward
<1> QED  BY <1>1, <1>2, <1>3, <1>4 DEF Applied, Stored

LEMMA MayComeStays ==
    ASSUME ProposalTypeOK, HistoryTypeOK, Remembers, Forward, NEW r \in Draft, MayCome(r)
    PROVE  MayCome(r)'
<1>1. Rests(r)' /\ r.source \in Source
  BY RestsStays DEF MayCome, Draft
<1>2. r.original \in past[r.source] /\ r.original \in past'[r.source]
  BY <1>1, HistoryGrows DEF MayCome
<1>3. ASSUME r.supersedes = None, Applied(r.source)' # {}
      PROVE  Gone(r.source, r.original)'
  <2>1. CASE Applied(r.source) # {}
    BY <1>1, <1>3, <2>1, GoneStays DEF MayCome
  <2>2. CASE Applied(r.source) = {}
    <3>1. PICK p \in Applied(r.source)' : p \notin Applied(r.source)
      BY <1>3, <2>2
    <3>2. record'[p] # record[p]
      BY <3>1 DEF Applied, Stored
    <3>3. Changes(r.source)
      BY <3>1, <3>2 DEF Changes
    <3> QED  BY <1>1, <1>2, <3>3, HistoryGrows DEF Gone
  <2> QED  BY <2>1, <2>2
<1> QED  BY <1>1, <1>2, <1>3 DEF MayCome

LEMMA RecordStays ==
    ASSUME ProposalTypeOK, HistoryTypeOK, Remembers, Forward, NEW r \in Draft, RecordHolds(r)
    PROVE  RecordHolds(r)'
<1>1. r.state \in {"draft", "approved"} => MayCome(r)'
  BY MayComeStays DEF RecordHolds
<1>2. r.state = "applied" => Rests(r)' /\ Gone(r.source, r.original)'
  BY RestsStays, GoneStays DEF RecordHolds, Draft
<1> QED  BY <1>1, <1>2 DEF RecordHolds

(* What a step leaves to show once it went forward.                          *)
OtherFilesStay(c) ==
    \A d \in Process \ {c}, r \in Draft : process[d].draft = r =>
        /\ process[d].at \in {"record", "compensate"} =>
              snapshot'[process[d].id][r.source] = snapshot[process[d].id][r.source]
        /\ process[d].at = "unlink" /\ record[process[d].id] = None =>
              record'[process[d].id] = None \/ process[d].id \in lost'

LEMMA OthersHold ==
    ASSUME ProposalInv, Remembers, Forward, NEW CONSTANT c, OtherFilesStay(c),
           \A d \in Process \ {c} : process'[d] = process[d],
           NEW d \in Process \ {c}, c \in Process => PreparesAlone(c)'
    PROVE  LocalHolds(d)'
<1>1. LocalHolds(d) /\ process'[d] = process[d]
  BY DEF ProposalInv
<1>2. PreparesAlone(d)'
  BY <1>1 DEF LocalHolds, PreparesAlone
<1>3. DraftHolds(d)'
  <2> SUFFICES ASSUME NEW r \in Draft, process[d].draft = r, process[d].at \in Preparing
               PROVE  /\ r.state = "draft" /\ r.original \in past'[r.source]
                      /\ process[d].at # "check" => MayCome(r)'
                      /\ process[d].at \in {"record", "compensate"} =>
                            snapshot'[process[d].id][r.source] = r.original
                      /\ process[d].at = "unlink" =>
                            record'[process[d].id] = None \/ process[d].id \in lost'
    BY <1>1 DEF DraftHolds
  <2>1. /\ r.state = "draft" /\ r.original \in past[r.source]
        /\ process[d].at # "check" => MayCome(r)
        /\ process[d].at \in {"record", "compensate"} =>
              snapshot[process[d].id][r.source] = r.original
        /\ process[d].at = "unlink" =>
              record[process[d].id] = None \/ process[d].id \in lost
    BY <1>1 DEF LocalHolds, DraftHolds
  <2>2. ProposalTypeOK /\ HistoryTypeOK /\ lost \subseteq lost' /\ r.source \in Source
    BY DEF ProposalInv, Forward, Draft
  <2>3. r.original \in past'[r.source] /\ (process[d].at # "check" => MayCome(r)')
    BY <2>1, <2>2, HistoryGrows, MayComeStays
  <2> QED  BY <2>1, <2>2, <2>3 DEF OtherFilesStay
<1>4. BatchHolds(d)'
  <2> SUFFICES ASSUME NEW p \in Proposal, NEW r \in Draft, process[d].at \in {"publish", "write"},
                      p \in process[d].batch, process[d].draft[p] = r
               PROVE  /\ r.state = "approved" /\ MayCome(r)'
                      /\ process[d].at = "write" => WriteHolds(d, p, r)'
    BY <1>1 DEF BatchHolds
  <2>1. /\ r.state = "approved" /\ MayCome(r) /\ r.source \in Source
        /\ process[d].at = "write" => WriteHolds(d, p, r)
    BY <1>1 DEF LocalHolds, BatchHolds, Draft
  <2>2. MayCome(r)'
    BY <2>1, MayComeStays DEF ProposalInv
  <2>3. ASSUME process[d].at = "write" PROVE WriteHolds(d, p, r)'
    <3>1. /\ WriteHolds(d, p, r) /\ disturbed[d] \subseteq disturbed'[d]
          /\ r.source \notin disturbed'[d] => text'[r.source] = text[r.source]
      BY <1>1, <2>1, <2>3 DEF Remembers
    <3>2. lost \subseteq lost'
      BY DEF Forward
    <3>3. CASE record[p] = r
      <4>1. \/ p \in lost' \/ record'[p] = r
            \/ record'[p] = AppliedAs(r) /\ text'[r.source] = r.proposed
        BY <2>1, <3>3 DEF Forward
      <4> QED  BY <3>1, <4>1 DEF WriteHolds
    <3>4. CASE record[p] = AppliedAs(r)
      <4>1. PICK x \in Draft : x = AppliedAs(r)
        BY DEF AppliedAs, Draft
      <4>2. x.state = "applied"
        BY <4>1 DEF AppliedAs, Draft
      <4>3. p \in lost' \/ record'[p] = x
        BY <3>4, <4>1, <4>2 DEF Forward
      <4> QED  BY <3>1, <3>2, <3>4, <4>1, <4>3 DEF WriteHolds
    <3> QED  BY <3>1, <3>2, <3>3, <3>4 DEF WriteHolds
  <2> QED  BY <2>1, <2>2, <2>3
<1>5. BatchForm(d)'
  BY <1>1 DEF LocalHolds, BatchForm
<1> QED  BY <1>1, <1>2, <1>3, <1>4, <1>5 DEF LocalHolds

LEMMA StepKeeps ==
    ASSUME ProposalInv, ProposalTypeOK', Remembers, Forward,
           NEW CONSTANT c, \A d \in Process \ {c} : process'[d] = process[d],
           c \in Process => LocalHolds(c)', OtherFilesStay(c),
           \A p \in Proposal, r \in Draft :
              record'[p] = r /\ record[p] # r => RecordHolds(r)',
           Distinct', SnapshotsBehindRecords'
    PROVE  ProposalInv'
<1>1. HistoryTypeOK' /\ \A s \in Source : text'[s] \in past'[s]
  BY HistoryForm, HistoryGrows DEF ProposalInv, ProposalTypeOK
<1>2. \A p \in Proposal, r \in Draft : record'[p] = r => RecordHolds(r)'
  <2> SUFFICES ASSUME NEW p \in Proposal, NEW r \in Draft, record'[p] = r
               PROVE  RecordHolds(r)'
    OBVIOUS
  <2>1. CASE record[p] = r
    BY <2>1, RecordStays DEF ProposalInv
  <2> QED  BY <2>1
<1>3. \A d \in Process : LocalHolds(d)'
  <2>1. c \in Process => PreparesAlone(c)'
    BY DEF LocalHolds
  <2> QED  BY <2>1, OthersHold
<1> QED  BY <1>1, <1>2, <1>3 DEF ProposalInv

-----------------------------------------------------------------------------
(* Most steps change one command and none of the files.                      *)
LEMMA LocalMoves ==
    ASSUME ProposalTypeOK, NEW c \in Process, NEW l \in LocalState, Goto(c, l)
    PROVE  /\ process' \in [Process -> LocalState] /\ process'[c] = l
           /\ \A d \in Process \ {c} : process'[d] = process[d]
BY DEF ProposalTypeOK, Goto

LEMMA AbsentForm == Absent \in LocalState /\ Absent.at = "idle" /\ Absent.id = None
BY DEF Absent, LocalState, Preparing

LEMMA AloneStays ==
    ASSUME ProposalInv, NEW c \in Process, \A d \in Process \ {c} : process'[d] = process[d],
           process'[c].id \in {process[c].id, None},
           process'[c].id # None <=> process'[c].at \in Preparing
    PROVE  PreparesAlone(c)'
BY DEF ProposalInv, LocalHolds, PreparesAlone

LEMMA QuietForward == UNCHANGED <<record, lost>> => Forward
BY DEF Forward

LEMMA QuietDistinct ==
    ASSUME ProposalInv, Remembers, UNCHANGED <<record, lost>>
    PROVE  Distinct'
<1>1. tangled \subseteq tangled'
  BY HistoryGrows DEF ProposalInv
<1> QED  BY <1>1 DEF ProposalInv, Distinct, Applied, Stored

LEMMA IdleHolds ==
    ASSUME NEW c, process'[c].at = "idle", PreparesAlone(c)'
    PROVE  LocalHolds(c)'
BY DEF LocalHolds, DraftHolds, BatchForm, BatchHolds, Preparing

LEMMA LocalStepKeeps ==
    ASSUME ProposalInv, Remembers, UNCHANGED <<text, record, snapshot, review, lost>>,
           spent' \in [edits : Nat, faults : Nat, calls : Nat],
           NEW c \in Process, NEW l \in LocalState, Goto(c, l), LocalHolds(c)'
    PROVE  ProposalInv'
<1>1. ProposalTypeOK /\ ProposalTypeOK' /\ \A d \in Process \ {c} : process'[d] = process[d]
  BY LocalMoves DEF ProposalInv, ProposalTypeOK
<1>2. OtherFilesStay(c)
  BY DEF OtherFilesStay
<1>3. Distinct' /\ SnapshotsBehindRecords'
  BY QuietDistinct DEF ProposalInv, SnapshotsBehindRecords, Stored
<1> QED  BY <1>1, <1>2, <1>3, QuietForward, StepKeeps

LEMMA EndKeeps ==
    ASSUME ProposalInv, Remembers, UNCHANGED <<text, record, snapshot, review, lost>>,
           spent' \in [edits : Nat, faults : Nat, calls : Nat],
           NEW c \in Process, Ends(c)
    PROVE  ProposalInv'
<1>1. Goto(c, Absent) /\ ProposalTypeOK
  BY DEF Ends, ProposalInv
<1>2. process'[c] = Absent /\ \A d \in Process \ {c} : process'[d] = process[d]
  BY <1>1, LocalMoves, AbsentForm
<1>3. process'[c].at = "idle" /\ process'[c].id = None
  BY <1>2, AbsentForm
<1>4. PreparesAlone(c)'
  BY <1>2, <1>3, AloneStays DEF Preparing
<1>5. LocalHolds(c)'
  BY <1>3, <1>4, IdleHolds
<1> QED  BY <1>1, <1>5, AbsentForm, LocalStepKeeps

(* The conditions on the command that goes on preparing.                     *)
LEMMA PreparingHolds ==
    ASSUME NEW c \in Process, PreparesAlone(c)', NEW CONSTANT l, process'[c] = l,
           NEW CONSTANT r \in Draft, l.draft = r, l.at \in Preparing,
           r.state = "draft", r.original \in past'[r.source],
           l.at # "check" => MayCome(r)',
           l.at \in {"record", "compensate"} => snapshot'[l.id][r.source] = r.original,
           l.at = "unlink" => record'[l.id] = None \/ l.id \in lost'
    PROVE  LocalHolds(c)'
<1>1. DraftHolds(c)'
  BY DEF DraftHolds
<1> QED  BY <1>1 DEF LocalHolds, BatchForm, BatchHolds, Preparing

LEMMA PrepareReadsKeeps ==
    ASSUME ProposalInv, Remembers, NEW c \in Process, PrepareReads(c)
    PROVE  ProposalInv'
<1>1. PICK p \in Proposal, s \in Source, proposed \in Text, e \in Evidence,
           prior \in Stored \cup {None}, reviewed \in BOOLEAN :
        /\ \A other \in Process : process[other].id # p
        /\ Goto(c, [Absent EXCEPT !.at = "check", !.id = p,
                !.draft = [source |-> s, original |-> text[s], proposed |-> proposed,
                           evidence |-> e, supersedes |-> prior, state |-> "draft",
                           review |-> IF reviewed THEN 0 ELSE None]])
  BY DEF PrepareReads
<1>2. PICK r : r = [source |-> s, original |-> text[s], proposed |-> proposed,
                    evidence |-> e, supersedes |-> prior, state |-> "draft",
                    review |-> IF reviewed THEN 0 ELSE None]
  OBVIOUS
<1>3. r \in Draft /\ r.state = "draft" /\ r.original = text[s] /\ r.original \in past[r.source]
  BY <1>1, <1>2 DEF ProposalInv, ProposalTypeOK, Draft, Stored
<1>4. PICK l : l = [Absent EXCEPT !.at = "check", !.id = p, !.draft = r]
  OBVIOUS
<1>5. l \in LocalState /\ l.at = "check" /\ l.id = p /\ l.draft = r
  BY <1>3, <1>4 DEF Absent, LocalState, Preparing
<1>6. /\ ProposalTypeOK /\ process'[c] = l
      /\ \A d \in Process \ {c} : process'[d] = process[d]
      /\ Goto(c, l)
  BY <1>1, <1>2, <1>4, <1>5, LocalMoves DEF ProposalInv
<1>7. /\ UNCHANGED <<text, record, snapshot, review, lost>>
      /\ spent' \in [edits : Nat, faults : Nat, calls : Nat]
  BY <1>6 DEF PrepareReads, Calls, ProposalTypeOK
<1>8. PreparesAlone(c)'
  BY <1>1, <1>5, <1>6, ProposalBounds DEF PreparesAlone, Preparing
<1>9. r.original \in past'[r.source]
  BY <1>3, HistoryGrows DEF ProposalInv, Draft
<1>10. LocalHolds(c)'
  BY <1>3, <1>5, <1>6, <1>8, <1>9, PreparingHolds DEF Preparing
<1> QED  BY <1>5, <1>6, <1>7, <1>10, LocalStepKeeps

(* What holds of a command that prepares.                                    *)
LEMMA PreparingForm ==
    ASSUME ProposalInv, NEW c \in Process, process[c].at \in Preparing
    PROVE  /\ ProposalTypeOK /\ process[c] \in LocalState /\ process[c].id \in Proposal
           /\ process[c].draft \in Draft /\ process[c].draft.state = "draft"
           /\ process[c].draft.original \in past[process[c].draft.source]
           /\ process[c].at # "check" => MayCome(process[c].draft)
           /\ process[c].at \in {"record", "compensate"} =>
                 snapshot[process[c].id][process[c].draft.source] = process[c].draft.original
           /\ process[c].at = "unlink" =>
                 record[process[c].id] = None \/ process[c].id \in lost
           /\ \A d \in Process \ {c} : process[d].id # process[c].id
<1>1. process[c] \in LocalState /\ LocalHolds(c) /\ ProposalTypeOK
  BY DEF ProposalInv, ProposalTypeOK
<1>2. process[c].id \in Proposal
  BY <1>1 DEF LocalHolds, PreparesAlone, LocalState
<1> QED  BY <1>1, <1>2, ProposalBounds DEF LocalHolds, DraftHolds, PreparesAlone

LEMMA PrepareChecksKeeps ==
    ASSUME ProposalInv, Remembers, NEW c \in Process, PrepareChecks(c)
    PROVE  ProposalInv'
<1>1. /\ process[c].at = "check" /\ process[c].at \in Preparing
      /\ UNCHANGED <<text, record, snapshot, review, lost, spent>>
  BY DEF PrepareChecks, Files, Preparing
<1>2. PICK r : r = process[c].draft
  OBVIOUS
<1>3. /\ ProposalTypeOK /\ process[c] \in LocalState /\ process[c].id \in Proposal
      /\ r \in Draft /\ r.state = "draft" /\ r.original \in past[r.source]
  BY <1>1, <1>2, PreparingForm
<1>4. spent' \in [edits : Nat, faults : Nat, calls : Nat]
  BY <1>1, <1>3 DEF ProposalTypeOK
<1>5. CASE RevisionAllowed(process[c].id, r) /\ Goto(c, [process[c] EXCEPT !.at = "snapshot"])
  <2>1. PICK l : l = [process[c] EXCEPT !.at = "snapshot"]
    OBVIOUS
  <2>2. l \in LocalState /\ l.at = "snapshot" /\ l.id = process[c].id /\ l.draft = r
    BY <1>2, <1>3, <2>1 DEF LocalState, Preparing
  <2>3. process'[c] = l /\ Goto(c, l) /\ \A d \in Process \ {c} : process'[d] = process[d]
    BY <1>3, <1>5, <2>1, <2>2, LocalMoves
  <2>4. PreparesAlone(c)'
    BY <1>3, <2>2, <2>3, AloneStays, ProposalBounds DEF Preparing
  <2>5. MayCome(r)
    BY <1>3, <1>5 DEF RevisionAllowed, MayCome, Rests
  <2>6. r.original \in past'[r.source] /\ MayCome(r)'
    BY <1>1, <1>3, <2>5, QuietForward, MayComeStays DEF ProposalInv, MayCome
  <2>7. LocalHolds(c)'
    BY <1>3, <2>2, <2>3, <2>4, <2>6, PreparingHolds DEF Preparing
  <2> QED  BY <1>1, <1>4, <2>2, <2>3, <2>7, LocalStepKeeps
<1>6. CASE Ends(c)
  BY <1>1, <1>4, <1>6, EndKeeps
<1> QED  BY <1>2, <1>5, <1>6 DEF PrepareChecks

LEMMA PrepareSnapshotsKeeps ==
    ASSUME ProposalInv, Remembers, NEW c \in Process, PrepareSnapshots(c)
    PROVE  ProposalInv'
<1>1. /\ process[c].at = "snapshot" /\ process[c].at \in Preparing
      /\ UNCHANGED <<text, record, review, mapped, spent, lost>>
  BY DEF PrepareSnapshots, Preparing
<1>2. PICK r, p : r = process[c].draft /\ p = process[c].id
  OBVIOUS
<1>3. /\ ProposalTypeOK /\ process[c] \in LocalState /\ p \in Proposal
      /\ r \in Draft /\ r.state = "draft" /\ r.original \in past[r.source] /\ MayCome(r)
      /\ \A d \in Process \ {c} : process[d].id # p
  BY <1>1, <1>2, PreparingForm
<1>4. /\ r.source \in Source /\ r.original \in Text
      /\ spent' \in [edits : Nat, faults : Nat, calls : Nat]
  BY <1>1, <1>3 DEF ProposalTypeOK, Draft
<1>5. CASE /\ snapshot[p][r.source] \in {None, r.original}
           /\ snapshot' = [snapshot EXCEPT ![p][r.source] = r.original]
           /\ PrepareReviews(c)
  <2>1. /\ snapshot' \in [Proposal -> [Source -> Text \cup {None}]]
        /\ snapshot'[p][r.source] = r.original
        /\ \A q \in Proposal, s \in Source :
              q # p \/ s # r.source => snapshot'[q][s] = snapshot[q][s]
    BY <1>3, <1>4, <1>5 DEF ProposalTypeOK
  <2>2. SnapshotsBehindRecords'
    <3> SUFFICES ASSUME NEW q \in Stored \ lost
                 PROVE  snapshot'[q][record[q].source] = record[q].original
      BY <1>1 DEF SnapshotsBehindRecords, Stored
    <3>1. /\ q \in Proposal /\ record[q] \in Draft /\ record[q].source \in Source
          /\ record[q].original \in Text
      BY <1>3 DEF Stored, ProposalTypeOK, Draft
    <3>2. snapshot[q][record[q].source] = record[q].original
      BY DEF ProposalInv, SnapshotsBehindRecords
    <3>3. record[q].original # None
      BY <3>1, ProposalBounds
    <3> QED  BY <1>5, <2>1, <3>1, <3>2, <3>3
  <2>3. OtherFilesStay(c)
    <3> SUFFICES ASSUME NEW d \in Process \ {c}, NEW x \in Draft, process[d].draft = x,
                        process[d].at \in {"record", "compensate"}
                 PROVE  snapshot'[process[d].id][x.source] = snapshot[process[d].id][x.source]
      BY <1>1 DEF OtherFilesStay
    <3>1. process[d].id \in Proposal /\ process[d].id # p /\ x.source \in Source
      BY <1>3, PreparingForm DEF Preparing, Draft
    <3> QED  BY <2>1, <3>1
  <2>4. Distinct'
    BY <1>1, QuietDistinct
  <2>5. Forward
    BY <1>1, <1>3, <1>4, QuietForward
  <2>6. CASE Ends(c)
    <3>1. /\ process' \in [Process -> LocalState] /\ process'[c] = Absent
          /\ \A d \in Process \ {c} : process'[d] = process[d]
      BY <1>3, <2>6, LocalMoves, AbsentForm DEF Ends
    <3>2. PreparesAlone(c)'
      BY <3>1, AbsentForm, AloneStays DEF Preparing
    <3>3. LocalHolds(c)'
      BY <3>1, <3>2, AbsentForm, IdleHolds
    <3>4. ProposalTypeOK'
      BY <1>1, <1>3, <2>1, <3>1 DEF ProposalTypeOK
    <3> QED  BY <1>1, <2>2, <2>3, <2>4, <2>5, <3>1, <3>3, <3>4, StepKeeps
  <2>7. CASE ~Ends(c)
    <3>1. PICK seen \in Nat \cup {None} :
              Goto(c, [process[c] EXCEPT !.at = "record",
                          !.draft = [r EXCEPT !.review = seen]])
      <4>1. (IF r.review = None THEN None ELSE review[p]) \in Nat \cup {None}
        BY <1>3 DEF ProposalTypeOK
      <4> QED  BY <1>2, <1>5, <2>7, <4>1 DEF PrepareReviews
    <3>2. PICK x : x = [r EXCEPT !.review = seen]
      OBVIOUS
    <3>3. /\ x \in Draft /\ x.state = "draft" /\ x.original = r.original
          /\ x.source = r.source /\ x.supersedes = r.supersedes
      BY <1>3, <3>2 DEF Draft
    <3>4. PICK l : l = [process[c] EXCEPT !.at = "record", !.draft = x]
      OBVIOUS
    <3>5. l \in LocalState /\ l.at = "record" /\ l.id = p /\ l.draft = x
      BY <1>2, <1>3, <3>3, <3>4 DEF LocalState, Preparing
    <3>6. /\ process' \in [Process -> LocalState] /\ process'[c] = l
          /\ \A d \in Process \ {c} : process'[d] = process[d]
      BY <1>3, <3>1, <3>2, <3>4, <3>5, LocalMoves
    <3>7. PreparesAlone(c)'
      BY <1>2, <1>3, <3>5, <3>6, AloneStays, ProposalBounds DEF Preparing
    <3>8. MayCome(x)
      BY <1>3, <3>3 DEF MayCome, Rests
    <3>9. x.original \in past'[x.source] /\ MayCome(x)'
      BY <2>5, <3>3, <3>8, MayComeStays DEF ProposalInv, MayCome
    <3>10. snapshot'[l.id][l.draft.source] = l.draft.original
      BY <2>1, <3>3, <3>5
    <3>11. LocalHolds(c)'
      BY <3>3, <3>5, <3>6, <3>7, <3>9, <3>10, PreparingHolds DEF Preparing
    <3>12. ProposalTypeOK'
      BY <1>1, <1>3, <2>1, <3>6 DEF ProposalTypeOK
    <3> QED  BY <1>1, <2>2, <2>3, <2>4, <2>5, <3>6, <3>11, <3>12, StepKeeps
  <2> QED  BY <2>6, <2>7
<1>6. CASE Ends(c) /\ UNCHANGED snapshot
  BY <1>1, <1>4, <1>6, EndKeeps
<1> QED  BY <1>2, <1>5, <1>6 DEF PrepareSnapshots

(* A record that is not applied is written, changed or taken away.           *)
LEMMA UnappliedChange ==
    ASSUME ProposalInv, Remembers, NEW CONSTANT p \in Proposal, NEW CONSTANT r \in Draft \cup {None},
           record' = [record EXCEPT ![p] = r], r # None => r.state # "applied",
           record[p] # None => record[p].state = "draft",
           UNCHANGED <<text, lost>>
    PROVE  /\ Forward /\ Distinct' /\ record' \in [Proposal -> Draft \cup {None}]
           /\ record'[p] = r /\ \A q \in Proposal \ {p} : record'[q] = record[q]
<1>1. /\ record' \in [Proposal -> Draft \cup {None}]
      /\ record'[p] = r /\ \A q \in Proposal \ {p} : record'[q] = record[q]
  BY DEF ProposalInv, ProposalTypeOK
<1>2. \A s \in Source : Applied(s)' = Applied(s) /\ p \notin Applied(s)
  BY <1>1 DEF Applied, Stored
<1>3. Forward
  BY <1>1, ProposalBounds DEF Forward
<1>4. Distinct'
  <2> SUFFICES ASSUME NEW q \in Proposal, NEW u \in Proposal, NEW s \in Source,
                      q \in Applied(s)', u \in Applied(s)', q # u, s \notin tangled'
               PROVE  /\ record'[q].original # record'[u].original
                      /\ record'[q].supersedes # record'[u].supersedes
                            \/ record'[q].supersedes \in lost'
    BY DEF Distinct
  <2>1. q \in Applied(s) /\ u \in Applied(s) /\ q # p /\ u # p /\ s \notin tangled
    BY <1>2, HistoryGrows DEF ProposalInv
  <2> QED  BY <1>1, <2>1 DEF ProposalInv, Distinct
<1> QED  BY <1>1, <1>3, <1>4

LEMMA PrepareRecordsKeeps ==
    ASSUME ProposalInv, Remembers, NEW c \in Process, PrepareRecords(c)
    PROVE  ProposalInv'
<1>1. /\ process[c].at = "record" /\ process[c].at \in Preparing
      /\ UNCHANGED <<text, snapshot, review, mapped, lost>>
  BY DEF PrepareRecords, Preparing
<1>2. PICK r, p : r = process[c].draft /\ p = process[c].id
  OBVIOUS
<1>3. /\ ProposalTypeOK /\ process[c] \in LocalState /\ p \in Proposal
      /\ r \in Draft /\ r.state = "draft" /\ r.original \in past[r.source] /\ MayCome(r)
      /\ snapshot[p][r.source] = r.original
      /\ \A d \in Process \ {c} : process[d].id # p
  BY <1>1, <1>2, PreparingForm
<1>4. spent' \in [edits : Nat, faults : Nat, calls : Nat]
  BY <1>1, <1>3 DEF PrepareRecords, ProposalTypeOK
<1>5. CASE UNCHANGED record /\ Ends(c)
  BY <1>1, <1>4, <1>5, EndKeeps
<1>6. CASE /\ record[p] = None /\ record' = [record EXCEPT ![p] = r]
           /\ Ends(c) \/ Goto(c, [process[c] EXCEPT !.at = "compensate"])
  <2>1. /\ Forward /\ Distinct' /\ record' \in [Proposal -> Draft \cup {None}]
        /\ record'[p] = r /\ \A q \in Proposal \ {p} : record'[q] = record[q]
    BY <1>1, <1>3, <1>4, <1>6, UnappliedChange
  <2>2. SnapshotsBehindRecords'
    <3> SUFFICES ASSUME NEW q \in Proposal, record'[q] # None, q \notin lost
                 PROVE  snapshot[q][record'[q].source] = record'[q].original
      BY <1>1 DEF SnapshotsBehindRecords, Stored
    <3> QED  BY <1>3, <2>1 DEF ProposalInv, SnapshotsBehindRecords, Stored
  <2>3. OtherFilesStay(c)
    <3> SUFFICES ASSUME NEW d \in Process \ {c}, process[d].at = "unlink",
                        record[process[d].id] = None
                 PROVE  record'[process[d].id] = None
      BY <1>1 DEF OtherFilesStay
    <3>1. process[d].id \in Proposal /\ process[d].id # p
      BY <1>3, PreparingForm DEF Preparing
    <3> QED  BY <2>1, <3>1
  <2>4. RecordHolds(r)'
    BY <1>3, <2>1, MayComeStays DEF RecordHolds, ProposalInv
  <2>5. \A q \in Proposal, x \in Draft : record'[q] = x /\ record[q] # x => RecordHolds(x)'
    BY <2>1, <2>4
  <2>6. CASE Ends(c)
    <3>1. /\ process' \in [Process -> LocalState] /\ process'[c] = Absent
          /\ \A d \in Process \ {c} : process'[d] = process[d]
      BY <1>3, <2>6, LocalMoves, AbsentForm DEF Ends
    <3>2. PreparesAlone(c)'
      BY <3>1, AbsentForm, AloneStays DEF Preparing
    <3>3. LocalHolds(c)'
      BY <3>1, <3>2, AbsentForm, IdleHolds
    <3>4. ProposalTypeOK'
      BY <1>1, <1>3, <1>4, <2>1, <3>1 DEF ProposalTypeOK
    <3> QED  BY <2>1, <2>2, <2>3, <2>5, <3>1, <3>3, <3>4, StepKeeps
  <2>7. CASE Goto(c, [process[c] EXCEPT !.at = "compensate"])
    <3>1. PICK l : l = [process[c] EXCEPT !.at = "compensate"]
      OBVIOUS
    <3>2. l \in LocalState /\ l.at = "compensate" /\ l.id = p /\ l.draft = r
      BY <1>2, <1>3, <3>1 DEF LocalState, Preparing
    <3>3. /\ process' \in [Process -> LocalState] /\ process'[c] = l
          /\ \A d \in Process \ {c} : process'[d] = process[d]
      BY <1>3, <2>7, <3>1, <3>2, LocalMoves
    <3>4. PreparesAlone(c)'
      BY <1>2, <1>3, <3>2, <3>3, AloneStays, ProposalBounds DEF Preparing
    <3>5. r.original \in past'[r.source] /\ MayCome(r)'
      BY <1>3, <2>1, MayComeStays DEF ProposalInv, MayCome
    <3>6. snapshot'[l.id][r.source] = r.original
      BY <1>1, <1>3, <3>2
    <3>7. LocalHolds(c)'
      BY <1>3, <3>2, <3>3, <3>4, <3>5, <3>6, PreparingHolds DEF Preparing
    <3>8. ProposalTypeOK'
      BY <1>1, <1>3, <1>4, <2>1, <3>3 DEF ProposalTypeOK
    <3> QED  BY <2>1, <2>2, <2>3, <2>5, <3>3, <3>7, <3>8, StepKeeps
  <2> QED  BY <1>6, <2>6, <2>7
<1> QED  BY <1>2, <1>5, <1>6 DEF PrepareRecords

LEMMA CompensatesKeeps ==
    ASSUME ProposalInv, Remembers, NEW c \in Process, Compensates(c)
    PROVE  ProposalInv'
<1>1. /\ process[c].at = "compensate" /\ process[c].at \in Preparing
      /\ UNCHANGED <<text, snapshot, review, mapped, spent, lost>>
  BY DEF Compensates, Preparing
<1>2. PICK r, p : r = process[c].draft /\ p = process[c].id
  OBVIOUS
<1>3. /\ ProposalTypeOK /\ process[c] \in LocalState /\ p \in Proposal
      /\ r \in Draft /\ r.state = "draft" /\ r.original \in past[r.source] /\ MayCome(r)
  BY <1>1, <1>2, PreparingForm
<1>4. spent' \in [edits : Nat, faults : Nat, calls : Nat]
  BY <1>1, <1>3 DEF ProposalTypeOK
<1>5. CASE /\ record[p] = r /\ record' = [record EXCEPT ![p] = None]
           /\ Goto(c, [process[c] EXCEPT !.at = "unlink"])
  <2>1. /\ Forward /\ Distinct' /\ record' \in [Proposal -> Draft \cup {None}]
        /\ record'[p] = None /\ \A q \in Proposal \ {p} : record'[q] = record[q]
    BY <1>1, <1>3, <1>4, <1>5, UnappliedChange
  <2>2. SnapshotsBehindRecords'
    BY <1>1, <1>3, <2>1 DEF ProposalInv, SnapshotsBehindRecords, Stored
  <2>3. OtherFilesStay(c)
    <3> SUFFICES ASSUME NEW d \in Process \ {c}, process[d].at = "unlink",
                        record[process[d].id] = None
                 PROVE  record'[process[d].id] = None
      BY <1>1 DEF OtherFilesStay
    <3>1. process[d].id \in Proposal
      BY PreparingForm DEF Preparing
    <3> QED  BY <2>1, <3>1
  <2>4. \A q \in Proposal, x \in Draft : record'[q] = x /\ record[q] # x => RecordHolds(x)'
    BY <2>1, ProposalBounds
  <2>5. PICK l : l = [process[c] EXCEPT !.at = "unlink"]
    OBVIOUS
  <2>6. l \in LocalState /\ l.at = "unlink" /\ l.id = p /\ l.draft = r
    BY <1>2, <1>3, <2>5 DEF LocalState, Preparing
  <2>7. /\ process' \in [Process -> LocalState] /\ process'[c] = l
        /\ \A d \in Process \ {c} : process'[d] = process[d]
    BY <1>3, <1>5, <2>5, <2>6, LocalMoves
  <2>8. PreparesAlone(c)'
    BY <1>2, <1>3, <2>6, <2>7, AloneStays, ProposalBounds DEF Preparing
  <2>9. r.original \in past'[r.source] /\ MayCome(r)'
    BY <1>3, <2>1, MayComeStays DEF ProposalInv, MayCome
  <2>10. LocalHolds(c)'
    BY <1>3, <2>1, <2>6, <2>7, <2>8, <2>9, PreparingHolds DEF Preparing
  <2>11. ProposalTypeOK'
    BY <1>1, <1>3, <1>4, <2>1, <2>7 DEF ProposalTypeOK
  <2> QED  BY <2>1, <2>2, <2>3, <2>4, <2>7, <2>10, <2>11, StepKeeps
<1>6. CASE Ends(c) /\ UNCHANGED record
  BY <1>1, <1>4, <1>6, EndKeeps
<1> QED  BY <1>2, <1>5, <1>6 DEF Compensates

LEMMA UnlinksKeeps ==
    ASSUME ProposalInv, Remembers, NEW c \in Process, Unlinks(c)
    PROVE  ProposalInv'
<1>1. /\ process[c].at = "unlink" /\ process[c].at \in Preparing
      /\ Goto(c, Absent)
      /\ UNCHANGED <<text, record, review, mapped, spent, lost>>
  BY DEF Unlinks, Ends, Preparing
<1>2. PICK r, p : r = process[c].draft /\ p = process[c].id
  OBVIOUS
<1>3. /\ ProposalTypeOK /\ p \in Proposal /\ r \in Draft /\ r.source \in Source
      /\ record[p] = None \/ p \in lost
      /\ \A d \in Process \ {c} : process[d].id # p
  BY <1>1, <1>2, PreparingForm DEF Draft
<1>4. /\ snapshot' \in [Proposal -> [Source -> Text \cup {None}]]
      /\ \A q \in Proposal \ {p} : snapshot'[q] = snapshot[q]
  BY <1>2, <1>3 DEF Unlinks, ProposalTypeOK
<1>5. SnapshotsBehindRecords'
  BY <1>1, <1>3, <1>4 DEF ProposalInv, SnapshotsBehindRecords, Stored
<1>6. OtherFilesStay(c)
  <2> SUFFICES ASSUME NEW d \in Process \ {c}, NEW x \in Draft, process[d].draft = x,
                      process[d].at \in {"record", "compensate"}
               PROVE  snapshot'[process[d].id][x.source] = snapshot[process[d].id][x.source]
    BY <1>1 DEF OtherFilesStay
  <2>1. process[d].id \in Proposal /\ process[d].id # p
    BY <1>3, PreparingForm DEF Preparing
  <2> QED  BY <1>4, <2>1
<1>7. Distinct'
  BY <1>1, QuietDistinct
<1>8. Forward
  BY <1>1, QuietForward
<1>9. /\ process' \in [Process -> LocalState] /\ process'[c] = Absent
      /\ \A d \in Process \ {c} : process'[d] = process[d]
  BY <1>1, <1>3, LocalMoves, AbsentForm
<1>10. PreparesAlone(c)'
  BY <1>9, AbsentForm, AloneStays DEF Preparing
<1>11. LocalHolds(c)'
  BY <1>9, <1>10, AbsentForm, IdleHolds
<1>12. ProposalTypeOK'
  BY <1>1, <1>3, <1>4, <1>9 DEF ProposalTypeOK
<1> QED  BY <1>1, <1>5, <1>6, <1>7, <1>8, <1>9, <1>11, <1>12, StepKeeps

-----------------------------------------------------------------------------
LEMMA SupersedeReadsKeeps ==
    ASSUME ProposalInv, Remembers, NEW c \in Process, SupersedeReads(c)
    PROVE  ProposalInv'
<1>1. PICK p \in Stored :
        /\ record[p].state = "draft"
        /\ Goto(c, [Absent EXCEPT !.at = "supersede", !.draft = record[p], !.batch = {p}])
  BY DEF SupersedeReads
<1>2. p \in Proposal /\ record[p] \in Draft /\ ProposalTypeOK
  BY DEF ProposalInv, ProposalTypeOK, Stored
<1>3. PICK l : l = [Absent EXCEPT !.at = "supersede", !.draft = record[p], !.batch = {p}]
  OBVIOUS
<1>4. /\ l \in LocalState /\ l.at = "supersede" /\ l.id = None
      /\ l.draft = record[p] /\ l.batch = {p}
  BY <1>2, <1>3 DEF Absent, LocalState, Preparing
<1>5. /\ process'[c] = l /\ Goto(c, l)
      /\ \A d \in Process \ {c} : process'[d] = process[d]
  BY <1>1, <1>2, <1>3, <1>4, LocalMoves
<1>6. /\ UNCHANGED <<text, record, snapshot, review, lost>>
      /\ spent' \in [edits : Nat, faults : Nat, calls : Nat]
  BY <1>2 DEF SupersedeReads, Calls, ProposalTypeOK
<1>7. PreparesAlone(c)'
  BY <1>4, <1>5, AloneStays DEF Preparing
<1>8. LocalHolds(c)'
  BY <1>1, <1>2, <1>4, <1>5, <1>7 DEF LocalHolds, DraftHolds, BatchForm, BatchHolds, Preparing
<1> QED  BY <1>4, <1>5, <1>6, <1>8, LocalStepKeeps

(* What was read is written back: the record is as it was read, or lost.     *)
LEMMA SupersedeWritesKeeps ==
    ASSUME ProposalInv, Remembers, NEW c \in Process, SupersedeWrites(c)
    PROVE  ProposalInv'
<1>1. /\ ProposalTypeOK /\ LocalHolds(c) /\ process[c].at = "supersede"
      /\ Goto(c, Absent) /\ UNCHANGED <<text, snapshot, review, mapped, spent>>
  BY DEF ProposalInv, SupersedeWrites, Ends
<1>2. PICK p \in Proposal : process[c].batch = {p}
  BY <1>1 DEF LocalHolds
<1>3. PICK x : x = process[c].draft
  OBVIOUS
<1>4. x \in Draft /\ x.state = "draft"
  BY <1>1, <1>3 DEF LocalHolds
<1>5. PICK y : y = [x EXCEPT !.state = "superseded"]
  OBVIOUS
<1>6. /\ y \in Draft /\ y.state = "superseded" /\ y.source = x.source
      /\ y.original = x.original /\ y # None
  BY <1>4, <1>5, ProposalBounds DEF Draft
<1>7. /\ record' = [record EXCEPT ![p] = y]
      /\ lost' = IF record[p] = x THEN lost ELSE lost \cup {p}
  BY <1>2, <1>3, <1>5 DEF SupersedeWrites
<1>8. /\ record' \in [Proposal -> Draft \cup {None}] /\ record'[p] = y
      /\ \A q \in Proposal \ {p} : record'[q] = record[q]
      /\ lost \subseteq lost' /\ lost' \subseteq Proposal
  BY <1>1, <1>6, <1>7 DEF ProposalTypeOK
<1>9. \A s \in Source : Applied(s)' = Applied(s) \ {p}
  BY <1>6, <1>8 DEF Applied, Stored
<1>10. \A s \in Source : p \in Applied(s) => p \in lost'
  BY <1>4, <1>7 DEF Applied
<1>11. Forward
  BY <1>4, <1>7, <1>8 DEF Forward
<1>12. Distinct'
  <2> SUFFICES ASSUME NEW q \in Proposal, NEW u \in Proposal, NEW s \in Source,
                      q \in Applied(s)', u \in Applied(s)', q # u, s \notin tangled'
               PROVE  /\ record'[q].original # record'[u].original
                      /\ record'[q].supersedes # record'[u].supersedes
                            \/ record'[q].supersedes \in lost'
    BY DEF Distinct
  <2>1. q \in Applied(s) /\ u \in Applied(s) /\ q # p /\ u # p /\ s \notin tangled
    BY <1>9, HistoryGrows DEF ProposalInv
  <2> QED  BY <1>8, <2>1 DEF ProposalInv, Distinct
<1>13. SnapshotsBehindRecords'
  <2> SUFFICES ASSUME NEW q \in Proposal, record'[q] # None, q \notin lost'
               PROVE  snapshot[q][record'[q].source] = record'[q].original
    BY <1>1 DEF SnapshotsBehindRecords, Stored
  <2>1. q \notin lost
    BY <1>8
  <2>2. CASE q # p
    BY <1>8, <2>1, <2>2 DEF ProposalInv, SnapshotsBehindRecords, Stored
  <2>3. CASE q = p
    <3>1. record[p] = x
      BY <1>7, <2>3
    <3>2. snapshot[p][x.source] = x.original
      BY <1>4, <2>1, <2>3, <3>1, ProposalBounds
         DEF ProposalInv, SnapshotsBehindRecords, Stored
    <3> QED  BY <1>6, <1>8, <2>3, <3>2
  <2> QED  BY <2>2, <2>3
<1>14. OtherFilesStay(c)
  <2> SUFFICES ASSUME NEW d \in Process \ {c}, process[d].at = "unlink",
                      record[process[d].id] = None
               PROVE  record'[process[d].id] = None \/ process[d].id \in lost'
    BY <1>1 DEF OtherFilesStay
  <2>1. process[d].id \in Proposal
    BY PreparingForm DEF Preparing
  <2>2. CASE process[d].id = p
    BY <1>4, <1>7, <2>2, ProposalBounds
  <2> QED  BY <1>8, <2>1, <2>2
<1>15. \A q \in Proposal, r \in Draft : record'[q] = r /\ record[q] # r => RecordHolds(r)'
  <2>1. RecordHolds(y)'
    BY <1>6 DEF RecordHolds
  <2> QED  BY <1>8, <2>1
<1>16. /\ process' \in [Process -> LocalState] /\ process'[c] = Absent
       /\ \A d \in Process \ {c} : process'[d] = process[d]
  BY <1>1, LocalMoves, AbsentForm
<1>17. PreparesAlone(c)'
  BY <1>16, AbsentForm, AloneStays DEF Preparing
<1>18. LocalHolds(c)'
  BY <1>16, <1>17, AbsentForm, IdleHolds
<1>19. ProposalTypeOK'
  BY <1>1, <1>8, <1>16 DEF ProposalTypeOK
<1> QED  BY <1>11, <1>12, <1>13, <1>14, <1>15, <1>16, <1>18, <1>19, StepKeeps

LEMMA ApplyReadsKeeps ==
    ASSUME ProposalInv, Remembers, NEW c \in Process, ApplyReads(c)
    PROVE  ProposalInv'
<1>1. PICK batch \in SUBSET Stored :
        /\ \A p \in batch : Applicable(p)
        /\ \A p, q \in batch : record[p].source = record[q].source => p = q
        /\ Goto(c, [Absent EXCEPT !.at = "publish", !.batch = batch,
                                  !.draft = [p \in batch |-> record[p]]])
  BY DEF ApplyReads
<1>2. PICK read : read = [p \in batch |-> record[p]]
  OBVIOUS
<1>3. /\ ProposalTypeOK /\ batch \in SUBSET Proposal /\ read \in [batch -> Draft]
      /\ \A p \in batch : read[p] = record[p] /\ read[p].state = "approved"
  BY <1>1, <1>2 DEF ProposalInv, ProposalTypeOK, Stored, Applicable
<1>4. PICK l : l = [Absent EXCEPT !.at = "publish", !.batch = batch, !.draft = read]
  OBVIOUS
<1>5. l \in LocalState /\ l.at = "publish" /\ l.id = None /\ l.draft = read /\ l.batch = batch
  <2>1. read \in UNION {[B -> Draft] : B \in SUBSET Proposal}
    BY <1>3
  <2> QED  BY <1>3, <1>4, <2>1 DEF Absent, LocalState, Preparing
<1>6. /\ process'[c] = l /\ Goto(c, l)
      /\ \A d \in Process \ {c} : process'[d] = process[d]
  BY <1>1, <1>2, <1>3, <1>4, <1>5, LocalMoves
<1>7. /\ UNCHANGED <<text, record, snapshot, review, lost>>
      /\ spent' \in [edits : Nat, faults : Nat, calls : Nat]
  BY <1>3 DEF ApplyReads, Calls, ProposalTypeOK
<1>8. PreparesAlone(c)'
  BY <1>5, <1>6, AloneStays DEF Preparing
<1>9. BatchForm(c)'
  BY <1>1, <1>3, <1>5, <1>6 DEF BatchForm
<1>10. BatchHolds(c)'
  <2> SUFFICES ASSUME NEW p \in Proposal, NEW r \in Draft, p \in batch, read[p] = r
               PROVE  r.state = "approved" /\ MayCome(r)'
    BY <1>5, <1>6 DEF BatchHolds
  <2>1. record[p] = r /\ r.state = "approved"
    BY <1>3
  <2>2. MayCome(r)
    BY <2>1 DEF ProposalInv, RecordHolds
  <2> QED  BY <1>3, <1>7, <2>1, <2>2, QuietForward, MayComeStays DEF ProposalInv
<1>11. LocalHolds(c)'
  BY <1>5, <1>6, <1>8, <1>9, <1>10 DEF LocalHolds, DraftHolds, Preparing
<1> QED  BY <1>5, <1>6, <1>7, <1>11, LocalStepKeeps

(* What holds of an application.                                             *)
LEMMA BatchRead ==
    ASSUME ProposalInv, NEW c \in Process, process[c].at \in {"publish", "write"}
    PROVE  /\ process[c].batch \in SUBSET Proposal
           /\ process[c].draft \in [process[c].batch -> Draft]
           /\ \A p, q \in process[c].batch :
                 process[c].draft[p].source = process[c].draft[q].source => p = q
           /\ \A p \in process[c].batch :
                 /\ process[c].draft[p] \in Draft /\ process[c].draft[p].source \in Source
                 /\ process[c].draft[p].state = "approved" /\ MayCome(process[c].draft[p])
                 /\ process[c].at = "write" => WriteHolds(c, p, process[c].draft[p])
<1>1. PICK batch, read : batch = process[c].batch /\ read = process[c].draft
  OBVIOUS
<1>2. /\ batch \in SUBSET Proposal /\ read \in [batch -> Draft]
      /\ \A p, q \in batch : read[p].source = read[q].source => p = q
  BY <1>1 DEF ProposalInv, LocalHolds, BatchForm
<1>3. ASSUME NEW p \in batch
      PROVE  /\ read[p] \in Draft /\ read[p].source \in Source
             /\ read[p].state = "approved" /\ MayCome(read[p])
             /\ process[c].at = "write" => WriteHolds(c, p, read[p])
  <2>1. PICK r \in Draft : r = read[p]
    BY <1>2, <1>3
  <2>2. r.state = "approved" /\ MayCome(r) /\ (process[c].at = "write" => WriteHolds(c, p, r))
    BY <1>1, <1>2, <1>3, <2>1 DEF ProposalInv, LocalHolds, BatchHolds
  <2> QED  BY <2>1, <2>2 DEF Draft
<1> QED  BY <1>1, <1>2, <1>3

LEMMA ComparesKeeps ==
    ASSUME ProposalInv, Remembers, NEW c \in Process, Compares(c)
    PROVE  ProposalInv'
<1>1. /\ ProposalTypeOK /\ process[c] \in LocalState /\ process[c].at = "publish"
      /\ UNCHANGED <<text, record, snapshot, review, lost>>
      /\ spent' \in [edits : Nat, faults : Nat, calls : Nat]
  BY DEF ProposalInv, ProposalTypeOK, Compares, Files
<1>2. PICK batch, read : batch = process[c].batch /\ read = process[c].draft
  OBVIOUS
<1>3. CASE /\ \A p \in batch : record[p] = read[p] /\ text[read[p].source] = read[p].original
           /\ Goto(c, [process[c] EXCEPT !.at = "write"])
  <2>1. PICK l : l = [process[c] EXCEPT !.at = "write"]
    OBVIOUS
  <2>2. /\ l \in LocalState /\ l.at = "write" /\ l.id = process[c].id
        /\ l.draft = read /\ l.batch = batch
    BY <1>1, <1>2, <2>1 DEF LocalState, Preparing
  <2>3. process'[c] = l /\ Goto(c, l) /\ \A d \in Process \ {c} : process'[d] = process[d]
    BY <1>1, <1>3, <2>1, <2>2, LocalMoves
  <2>4. process[c].id = None
    BY <1>1 DEF ProposalInv, LocalHolds, PreparesAlone, Preparing
  <2>5. PreparesAlone(c)'
    BY <2>2, <2>3, <2>4, AloneStays DEF Preparing
  <2>6. BatchForm(c)'
    BY <1>1, <1>2, <2>2, <2>3, BatchRead DEF BatchForm
  <2>7. BatchHolds(c)'
    <3> SUFFICES ASSUME NEW p \in Proposal, NEW r \in Draft, p \in batch, read[p] = r
                 PROVE  r.state = "approved" /\ MayCome(r)' /\ WriteHolds(c, p, r)'
      BY <2>2, <2>3 DEF BatchHolds
    <3>1. r.state = "approved" /\ MayCome(r)
      BY <1>1, <1>2, BatchRead
    <3>2. MayCome(r)'
      BY <1>1, <3>1, QuietForward, MayComeStays DEF ProposalInv
    <3>3. WriteHolds(c, p, r)'
      BY <1>1, <1>3 DEF WriteHolds
    <3> QED  BY <3>1, <3>2, <3>3
  <2>8. LocalHolds(c)'
    BY <2>2, <2>3, <2>5, <2>6, <2>7 DEF LocalHolds, DraftHolds, Preparing
  <2> QED  BY <1>1, <2>2, <2>3, <2>8, LocalStepKeeps
<1>4. CASE Ends(c)
  BY <1>1, <1>4, EndKeeps
<1> QED  BY <1>2, <1>3, <1>4 DEF Compares

(* What an application finds when it writes, and what it writes.             *)
Replaces(batch, read) ==
    /\ batch \in SUBSET Proposal
    /\ \A p \in batch :
          /\ read[p] \in Draft /\ read[p].source \in Source
          /\ read[p].state = "approved" /\ MayCome(read[p])
          /\ record'[p] = AppliedAs(read[p]) /\ text'[read[p].source] = read[p].proposed
    /\ \A q \in Proposal \ batch : record'[q] = record[q]
    /\ \A s \in Source : (\E p \in batch : read[p].source = s) \/ text'[s] = text[s]
    /\ \A p, q \in batch : read[p].source = read[q].source => p = q
    /\ record' \in [Proposal -> Draft \cup {None}] /\ text' \in [Source -> Text]

LEMMA PublicationForm ==
    ASSUME ProposalInv, NEW c \in Process, Publishes(c),
           NEW CONSTANT batch, batch = process[c].batch,
           NEW CONSTANT read, read = process[c].draft
    PROVE  /\ Replaces(batch, read)
           /\ \A p \in batch : WriteHolds(c, p, read[p])
<1>1. ProposalTypeOK /\ process[c].at = "write"
  BY DEF ProposalInv, Publishes
<1>2. /\ batch \in SUBSET Proposal
      /\ \A p, q \in batch : read[p].source = read[q].source => p = q
      /\ \A p \in batch :
            /\ read[p] \in Draft /\ read[p].source \in Source
            /\ read[p].state = "approved" /\ MayCome(read[p])
            /\ WriteHolds(c, p, read[p])
  BY <1>1, BatchRead
<1>3. /\ record' = [p \in Proposal |-> IF p \in batch
                       THEN [read[p] EXCEPT !.state = "applied"] ELSE record[p]]
      /\ text' = [s \in Source |->
             IF {p \in batch : read[p].source = s} = {} THEN text[s]
             ELSE read[CHOOSE p \in {q \in batch : read[q].source = s} : TRUE].proposed]
  BY DEF Publishes
<1>4. \A p \in batch : text'[read[p].source] = read[p].proposed
  <2> SUFFICES ASSUME NEW p \in batch PROVE text'[read[p].source] = read[p].proposed
    OBVIOUS
  <2>1. {q \in batch : read[q].source = read[p].source} = {p}
    BY <1>2
  <2>2. (CHOOSE q \in {q \in batch : read[q].source = read[p].source} : TRUE) = p
    BY <2>1
  <2> QED  BY <1>2, <1>3, <2>1, <2>2
<1>5. \A p \in batch : record'[p] = AppliedAs(read[p]) /\ record'[p] \in Draft
  <2> SUFFICES ASSUME NEW p \in batch
               PROVE  record'[p] = AppliedAs(read[p]) /\ record'[p] \in Draft
    OBVIOUS
  <2>1. PICK r \in Draft : r = read[p]
    BY <1>2
  <2>2. record'[p] = AppliedAs(r) /\ AppliedAs(r) \in Draft
    BY <1>2, <1>3, <2>1 DEF AppliedAs, Draft
  <2> QED  BY <2>1, <2>2
<1>6. \A q \in Proposal \ batch : record'[q] = record[q]
  BY <1>3
<1>7. record' \in [Proposal -> Draft \cup {None}]
  BY <1>1, <1>3, <1>5, <1>6 DEF ProposalTypeOK
<1>8. \A s \in Source : (\E p \in batch : read[p].source = s) \/ text'[s] = text[s]
  BY <1>3
<1>9. text' \in [Source -> Text]
  <2>1. \A s \in Source : text'[s] \in Text
    BY <1>1, <1>2, <1>4, <1>8 DEF ProposalTypeOK, Draft
  <2>2. DOMAIN text' = Source /\ text' = [s \in Source |-> text'[s]]
    BY <1>3
  <2> QED  BY <2>1, <2>2
<1> QED  BY <1>2, <1>4, <1>5, <1>6, <1>7, <1>8, <1>9 DEF Replaces

(* A record that an application changes is the one it read, of a source that *)
(* holds the text it was prepared for, unless that record is lost or the     *)
(* source tangled.                                                           *)
LEMMA PublishesKeeps ==
    ASSUME ProposalInv, Remembers, NEW c \in Process, Publishes(c)
    PROVE  ProposalInv'
<1>1. /\ ProposalTypeOK /\ HistoryTypeOK /\ Ends(c) /\ process[c].at = "write"
      /\ UNCHANGED <<snapshot, review, mapped, spent, lost>>
  BY DEF ProposalInv, Publishes
<1>2. PICK batch, read : batch = process[c].batch /\ read = process[c].draft
  OBVIOUS
<1>3. /\ batch \in SUBSET Proposal
      /\ \A p \in batch :
            /\ read[p] \in Draft /\ read[p].source \in Source
            /\ read[p].state = "approved" /\ MayCome(read[p])
            /\ record'[p] = AppliedAs(read[p]) /\ text'[read[p].source] = read[p].proposed
            /\ WriteHolds(c, p, read[p])
      /\ \A q \in Proposal \ batch : record'[q] = record[q]
      /\ \A s \in Source : (\E p \in batch : read[p].source = s) \/ text'[s] = text[s]
      /\ \A p, q \in batch : read[p].source = read[q].source => p = q
      /\ record' \in [Proposal -> Draft \cup {None}] /\ text' \in [Source -> Text]
  <2>1. Replaces(batch, read) /\ \A p \in batch : WriteHolds(c, p, read[p])
    BY <1>2, PublicationForm
  <2> QED  BY <2>1 DEF Replaces
<1>4. ASSUME NEW p \in batch, NEW x \in Draft, x = read[p]
      PROVE  /\ record'[p] \in Draft /\ record'[p].state = "applied"
             /\ record'[p].source = x.source /\ record'[p].original = x.original
             /\ record'[p].supersedes = x.supersedes
             /\ p \in lost \/ record[p] = x \/ record[p] = record'[p]
             /\ p \in lost \/ (record[p] # None /\ record[p].source = x.source
                               /\ record[p].original = x.original)
  <2>1. record'[p] = AppliedAs(x) /\ WriteHolds(c, p, x)
    BY <1>3, <1>4
  <2>2. /\ AppliedAs(x) \in Draft /\ AppliedAs(x).state = "applied"
        /\ AppliedAs(x).source = x.source /\ AppliedAs(x).original = x.original
        /\ AppliedAs(x).supersedes = x.supersedes
    BY DEF AppliedAs, Draft
  <2> QED  BY <2>1, <2>2, ProposalBounds DEF WriteHolds
<1>5. \A p \in batch : record'[p] \in Draft /\ record'[p].state = "applied"
                       /\ record'[p].source = read[p].source /\ record'[p] # None
  BY <1>3, <1>4, ProposalBounds
<1>6. Forward
  <2> SUFFICES ASSUME NEW p \in Proposal, NEW y \in Draft, record[p] = y,
                      y.state \in {"approved", "applied"}, p \in batch, p \notin lost
               PROVE  \/ record'[p] = y
                      \/ y.state = "approved" /\ record'[p] = AppliedAs(y)
                         /\ text'[y.source] = y.proposed
    BY <1>1, <1>3 DEF Forward
  <2>1. PICK x \in Draft : x = read[p]
    BY <1>3
  <2>2. y = x \/ y = record'[p]
    BY <1>4, <2>1
  <2> QED  BY <1>3, <2>1, <2>2
<1>7. ASSUME NEW p \in batch, NEW s \in Source, read[p].source = s,
             record'[p] # record[p], s \notin tangled'
      PROVE  text'[s] \notin past[s] /\ text[s] = read[p].original
  <2>1. p \in Applied(s)'
    BY <1>3, <1>5, <1>7 DEF Applied, Stored
  <2>2. Changes(s)
    BY <1>7, <2>1 DEF Changes
  <2>3. process'[c].at = "idle"
    BY <1>1, LocalMoves, AbsentForm DEF Ends
  <2>4. s \notin disturbed[c]
    BY <1>1, <1>7, <2>2, <2>3 DEF Remembers, WritesUnseen
  <2>5. PICK x \in Draft : x = read[p]
    BY <1>3
  <2>6. WriteHolds(c, p, x)
    BY <1>3, <2>5
  <2> QED  BY <1>1, <1>7, <2>2, <2>4, <2>5, <2>6, HistoryGrows DEF WriteHolds
<1>8. \A q \in Proposal, r \in Draft : record'[q] = r /\ record[q] # r => RecordHolds(r)'
  <2> SUFFICES ASSUME NEW p \in batch, NEW r \in Draft, record'[p] = r, record[p] # r
               PROVE  RecordHolds(r)'
    BY <1>3
  <2>1. PICK x \in Draft : x = read[p]
    BY <1>3
  <2>2. /\ r.state = "applied" /\ r.source = x.source /\ r.original = x.original
        /\ r.supersedes = x.supersedes /\ x.source \in Source
    BY <1>3, <1>4, <2>1
  <2>3. MayCome(x)
    BY <1>3, <2>1
  <2>4. Rests(x)'
    BY <1>1, <1>6, <2>3, RestsStays DEF MayCome
  <2>5. Rests(r)'
    BY <2>2, <2>4 DEF Rests
  <2>6. x.original \in past[x.source] /\ x.original \in past'[x.source]
    BY <1>1, <2>2, <2>3, HistoryGrows DEF MayCome
  <2>7. x.source \notin tangled' => text'[x.source] \notin past[x.source]
    BY <1>7, <2>1, <2>2
  <2>8. Gone(r.source, r.original)'
    BY <2>2, <2>6, <2>7 DEF Gone
  <2> QED  BY <2>2, <2>5, <2>8 DEF RecordHolds
<1>9. ASSUME NEW s \in Source, s \notin tangled', NEW p \in batch, read[p].source = s,
             record'[p] # record[p], NEW q \in Applied(s)
      PROVE  /\ read[p].original # record[q].original
             /\ read[p].supersedes # record[q].supersedes \/ read[p].supersedes \in lost
  <2>1. PICK x \in Draft : x = read[p]
    BY <1>3
  <2>2. PICK y \in Draft : y = record[q]
    BY <1>1 DEF Applied, Stored, ProposalTypeOK
  <2>3. y.source = s /\ y.state = "applied" /\ q \in Proposal
    BY <2>2 DEF Applied, Stored
  <2>4. Rests(y) /\ Gone(s, y.original) /\ s \notin tangled
    BY <1>1, <1>9, <2>2, <2>3, HistoryGrows DEF ProposalInv, RecordHolds
  <2>5. text[s] = x.original /\ MayCome(x) /\ x.source = s
    BY <1>3, <1>7, <1>9, <2>1
  <2>6. x.original # y.original
    BY <2>4, <2>5 DEF Gone
  <2>7. x.supersedes # None
    BY <2>4, <2>5 DEF MayCome, Gone
  <2>8. x.supersedes = y.supersedes => x.supersedes \in lost
    BY <2>5, <2>6, <2>4, <2>7 DEF MayCome, Rests
  <2> QED  BY <2>1, <2>2, <2>6, <2>8
<1>10. Distinct'
  <2> SUFFICES ASSUME NEW p \in Proposal, NEW q \in Proposal, NEW s \in Source,
                      p \in Applied(s)', q \in Applied(s)', p # q, s \notin tangled'
               PROVE  /\ record'[p].original # record'[q].original
                      /\ record'[p].supersedes # record'[q].supersedes
                            \/ record'[p].supersedes \in lost'
    BY DEF Distinct
  <2>1. \A u \in Applied(s)' :
           \/ u \in batch /\ read[u].source = s /\ record'[u] # record[u]
           \/ u \in Applied(s) /\ record'[u] = record[u]
    BY <1>3, <1>5 DEF Applied, Stored
  <2>2. CASE p \in batch /\ read[p].source = s /\ record'[p] # record[p]
    <3>1. q \in Applied(s) /\ record'[q] = record[q]
      BY <1>3, <2>1, <2>2
    <3>2. PICK x \in Draft : x = read[p]
      BY <1>3, <2>2
    <3>3. record'[p].original = x.original /\ record'[p].supersedes = x.supersedes
      BY <1>4, <2>2, <3>2
    <3>4. /\ x.original # record[q].original
          /\ x.supersedes # record[q].supersedes \/ x.supersedes \in lost
      BY <1>9, <2>2, <3>1, <3>2
    <3> QED  BY <1>1, <3>1, <3>3, <3>4
  <2>3. CASE q \in batch /\ read[q].source = s /\ record'[q] # record[q]
    <3>1. p \in Applied(s) /\ record'[p] = record[p]
      BY <1>3, <2>1, <2>3
    <3>2. PICK x \in Draft : x = read[q]
      BY <1>3, <2>3
    <3>3. record'[q].original = x.original /\ record'[q].supersedes = x.supersedes
      BY <1>4, <2>3, <3>2
    <3>4. /\ x.original # record[p].original
          /\ x.supersedes # record[p].supersedes \/ x.supersedes \in lost
      BY <1>9, <2>3, <3>1, <3>2
    <3> QED  BY <1>1, <3>1, <3>3, <3>4
  <2>4. CASE p \in Applied(s) /\ record'[p] = record[p] /\ q \in Applied(s) /\ record'[q] = record[q]
    <3>1. s \notin tangled
      BY <1>1, HistoryGrows
    <3> QED  BY <1>1, <2>4, <3>1 DEF ProposalInv, Distinct
  <2> QED  BY <2>1, <2>2, <2>3, <2>4
<1>11. SnapshotsBehindRecords'
  <2> SUFFICES ASSUME NEW q \in Proposal, record'[q] # None, q \notin lost
               PROVE  snapshot[q][record'[q].source] = record'[q].original
    BY <1>1 DEF SnapshotsBehindRecords, Stored
  <2>1. record[q] # None => snapshot[q][record[q].source] = record[q].original
    BY DEF ProposalInv, SnapshotsBehindRecords, Stored
  <2>2. CASE q \in batch
    <3>1. PICK x \in Draft : x = read[q]
      BY <1>3, <2>2
    <3> QED  BY <1>4, <2>1, <2>2, <3>1
  <2> QED  BY <1>3, <2>1, <2>2
<1>12. OtherFilesStay(c)
  <2> SUFFICES ASSUME NEW d \in Process \ {c}, process[d].at = "unlink",
                      record[process[d].id] = None, process[d].id \notin lost
               PROVE  record'[process[d].id] = None
    BY <1>1 DEF OtherFilesStay
  <2>1. process[d].id \in Proposal
    BY PreparingForm DEF Preparing
  <2>2. process[d].id \notin batch
    BY <1>3, <1>4
  <2> QED  BY <1>3, <2>1, <2>2
<1>13. /\ process' \in [Process -> LocalState] /\ process'[c] = Absent
       /\ \A d \in Process \ {c} : process'[d] = process[d]
  BY <1>1, LocalMoves, AbsentForm DEF Ends
<1>14. PreparesAlone(c)'
  BY <1>13, AbsentForm, AloneStays DEF Preparing
<1>15. LocalHolds(c)'
  BY <1>13, <1>14, AbsentForm, IdleHolds
<1>16. ProposalTypeOK'
  BY <1>1, <1>3, <1>13 DEF ProposalTypeOK
<1> QED  BY <1>6, <1>8, <1>10, <1>11, <1>12, <1>13, <1>15, <1>16, StepKeeps

-----------------------------------------------------------------------------
(* The user and the deaths.  A step that no command takes is one of None.    *)
LEMMA DecidesKeeps ==
    ASSUME ProposalInv, Remembers, NEW p \in Proposal, NEW state \in {"approved", "rejected"},
           Decides(p, state)
    PROVE  ProposalInv'
<1>1. /\ ProposalTypeOK
      /\ UNCHANGED <<text, snapshot, review, mapped, process, spent, lost>>
  BY DEF ProposalInv, Decides
<1>2. PICK x : x = record[p]
  OBVIOUS
<1>3. x \in Draft /\ x.state = "draft"
  BY <1>1, <1>2 DEF Decides, ProposalTypeOK
<1>4. PICK y : y = [x EXCEPT !.state = state]
  OBVIOUS
<1>5. /\ y \in Draft /\ y.state = state /\ y.source = x.source /\ y.original = x.original
      /\ y.supersedes = x.supersedes
  BY <1>3, <1>4 DEF Draft
<1>6. record' = [record EXCEPT ![p] = y]
  BY <1>1, <1>2, <1>4 DEF Decides, ProposalTypeOK
<1>7. /\ Forward /\ Distinct' /\ record' \in [Proposal -> Draft \cup {None}]
      /\ record'[p] = y /\ \A q \in Proposal \ {p} : record'[q] = record[q]
  BY <1>1, <1>2, <1>3, <1>5, <1>6, UnappliedChange
<1>8. RecordHolds(y)'
  <2>1. MayCome(x)
    BY <1>2, <1>3 DEF ProposalInv, RecordHolds
  <2>2. MayCome(x)'
    BY <1>1, <1>3, <1>7, <2>1, MayComeStays DEF ProposalInv
  <2> QED  BY <1>5, <2>2 DEF RecordHolds, MayCome, Rests
<1>9. SnapshotsBehindRecords'
  <2> SUFFICES ASSUME NEW q \in Proposal, record'[q] # None, q \notin lost
               PROVE  snapshot[q][record'[q].source] = record'[q].original
    BY <1>1 DEF SnapshotsBehindRecords, Stored
  <2>1. record[q] # None
    BY <1>2, <1>3, <1>7, ProposalBounds
  <2>2. snapshot[q][record[q].source] = record[q].original
    BY <2>1 DEF ProposalInv, SnapshotsBehindRecords, Stored
  <2> QED  BY <1>2, <1>5, <1>7, <2>2
<1>10. OtherFilesStay(None)
  <2> SUFFICES ASSUME NEW d \in Process, process[d].at = "unlink",
                      record[process[d].id] = None
               PROVE  record'[process[d].id] = None
    BY <1>1 DEF OtherFilesStay
  <2>1. process[d].id \in Proposal
    BY PreparingForm DEF Preparing
  <2> QED  BY <1>2, <1>3, <1>7, <2>1, ProposalBounds
<1>11. ProposalTypeOK'
  BY <1>1, <1>7 DEF ProposalTypeOK
<1>12. \A q \in Proposal, r \in Draft : record'[q] = r /\ record[q] # r => RecordHolds(r)'
  BY <1>7, <1>8
<1> QED  BY <1>1, <1>7, <1>9, <1>10, <1>11, <1>12, StepKeeps, ProposalBounds

LEMMA EditsKeeps == ProposalInv /\ Remembers /\ Edits => ProposalInv'
<1> SUFFICES ASSUME ProposalInv, Remembers, Edits PROVE ProposalInv'
  OBVIOUS
<1>1. /\ ProposalTypeOK /\ UNCHANGED <<record, snapshot, process, lost>>
      /\ spent' \in [edits : Nat, faults : Nat, calls : Nat]
  BY DEF ProposalInv, Edits, ProposalTypeOK
<1>2. text' \in [Source -> Text] /\ review' \in [Proposal -> Nat \cup {None}]
  BY <1>1 DEF Edits, ProposalTypeOK
<1>3. OtherFilesStay(None) /\ SnapshotsBehindRecords'
  BY <1>1 DEF OtherFilesStay, ProposalInv, SnapshotsBehindRecords, Stored
<1>4. Forward /\ Distinct'
  BY <1>1, QuietForward, QuietDistinct
<1>5. ProposalTypeOK'
  BY <1>1, <1>2 DEF ProposalTypeOK
<1> QED  BY <1>1, <1>3, <1>4, <1>5, StepKeeps, ProposalBounds

LEMMA DiesKeeps ==
    ASSUME ProposalInv, Remembers, NEW c \in Process, Dies(c)
    PROVE  ProposalInv'
<1>1. /\ UNCHANGED <<text, record, snapshot, review, lost>> /\ Ends(c)
      /\ spent' \in [edits : Nat, faults : Nat, calls : Nat]
  BY DEF ProposalInv, ProposalTypeOK, Dies, Files
<1> QED  BY <1>1, EndKeeps

LEMMA ProposalInitHolds == ProposalInit => ProposalInv
<1> SUFFICES ASSUME ProposalInit PROVE ProposalInv
  OBVIOUS
<1>1. /\ record = [p \in Proposal |-> None] /\ text \in [Source -> Text]
      /\ process = [c \in Process |-> Absent] /\ lost = {}
      /\ spent = [edits |-> 0, faults |-> 0, calls |-> 0]
      /\ past = [s \in Source |-> {text[s]}] /\ disturbed = [c \in Process |-> {}]
      /\ tangled = {}
  BY DEF ProposalInit
<1>2. ProposalTypeOK
  BY <1>1, AbsentForm DEF ProposalInit, ProposalTypeOK
<1>3. HistoryTypeOK /\ \A s \in Source : text[s] \in past[s]
  BY <1>1 DEF HistoryTypeOK
<1>4. Stored = {}
  BY <1>1 DEF Stored
<1>5. \A c \in Process : LocalHolds(c)
  BY <1>1, AbsentForm DEF LocalHolds, PreparesAlone, DraftHolds, BatchForm, BatchHolds, Preparing
<1>6. \A p \in Proposal, r \in Draft : record[p] # r
  BY <1>1, ProposalBounds
<1>7. Distinct /\ SnapshotsBehindRecords
  BY <1>4 DEF Distinct, SnapshotsBehindRecords, Applied
<1> QED  BY <1>2, <1>3, <1>5, <1>6, <1>7 DEF ProposalInv

LEMMA ProposalStutter == ProposalInv /\ UNCHANGED proposalVars => ProposalInv'
<1> SUFFICES ASSUME ProposalInv, UNCHANGED proposalVars PROVE ProposalInv'
  OBVIOUS
<1>1. UNCHANGED <<text, record, snapshot, review, process, spent, lost, past, disturbed, tangled>>
  BY DEF proposalVars, history
<1>2. \A s \in Source : Applied(s)' = Applied(s)
  BY <1>1 DEF Applied, Stored
<1>3. ASSUME NEW r \in Draft
      PROVE  (Rests(r)' <=> Rests(r)) /\ (Gone(r.source, r.original)' <=> Gone(r.source, r.original))
             /\ (MayCome(r)' <=> MayCome(r)) /\ (RecordHolds(r)' <=> RecordHolds(r))
  <2>1. r.source \in Source
    BY DEF Draft
  <2>2. (Rests(r)' <=> Rests(r)) /\ (Gone(r.source, r.original)' <=> Gone(r.source, r.original))
    BY <1>1, <1>2, <2>1 DEF Rests, Gone
  <2>3. MayCome(r)' <=> MayCome(r)
    BY <1>1, <1>2, <2>1, <2>2 DEF MayCome
  <2> QED  BY <2>2, <2>3 DEF RecordHolds
<1>4. \A p \in Proposal, r \in Draft : record'[p] = r => RecordHolds(r)'
  BY <1>1, <1>3 DEF ProposalInv
<1>5. ASSUME NEW c \in Process PROVE LocalHolds(c)'
  <2>1. LocalHolds(c)
    BY DEF ProposalInv
  <2>2. PreparesAlone(c)' /\ BatchForm(c)'
    BY <1>1, <2>1 DEF LocalHolds, PreparesAlone, BatchForm
  <2>3. DraftHolds(c)'
    BY <1>1, <1>3, <2>1 DEF LocalHolds, DraftHolds
  <2>4. BatchHolds(c)'
    BY <1>1, <1>3, <2>1 DEF LocalHolds, BatchHolds, WriteHolds
  <2> QED  BY <1>1, <2>1, <2>2, <2>3, <2>4 DEF LocalHolds
<1>6. ProposalTypeOK' /\ HistoryTypeOK' /\ \A s \in Source : text'[s] \in past'[s]
  BY <1>1 DEF ProposalInv, ProposalTypeOK, HistoryTypeOK
<1>7. Distinct' /\ SnapshotsBehindRecords'
  BY <1>1, <1>2 DEF ProposalInv, Distinct, SnapshotsBehindRecords, Stored
<1> QED  BY <1>4, <1>5, <1>6, <1>7 DEF ProposalInv

(* ProposalInv is an invariant of any number of commands next to each other *)
(* and next to the user, who can write any text back at any time            *)
(* (prepare_proposal, supersede_draft, apply_proposals).                    *)
THEOREM ProposalInvariant == ProposalSpec => []ProposalInv
<1>1. ProposalInv /\ [ProposalNext]_proposalVars => ProposalInv'
  <2> SUFFICES ASSUME ProposalInv, [ProposalNext]_proposalVars PROVE ProposalInv'
    OBVIOUS
  <2>1. ASSUME Remembers, NEW c \in Process, Command(c) PROVE ProposalInv'
    BY <2>1, PrepareReadsKeeps, PrepareChecksKeeps, PrepareSnapshotsKeeps, PrepareRecordsKeeps,
       CompensatesKeeps, UnlinksKeeps, SupersedeReadsKeeps, SupersedeWritesKeeps,
       ApplyReadsKeeps, ComparesKeeps, PublishesKeeps DEF Command, Prepare
  <2>2. CASE World /\ Remembers
    BY <2>2, DecidesKeeps, EditsKeeps, DiesKeeps DEF World
  <2>3. CASE UNCHANGED proposalVars
    BY <2>3, ProposalStutter
  <2> QED  BY <2>1, <2>2, <2>3 DEF ProposalNext, ProposalStep
<1> QED  BY <1>1, ProposalInitHolds, PTL DEF ProposalSpec

(* The applied proposals of a source form one history: each started from    *)
(* the output of the one it supersedes, and while the source is not tangled *)
(* no text was replaced twice (prepare_proposal, apply_proposals).          *)
THEOREM RevisionsAreOneHistory == ProposalSpec => []RevisionsFormAHistory
<1>1. ProposalInv => RevisionsFormAHistory
  <2> SUFFICES ASSUME ProposalInv, NEW s \in Source, NEW p \in Applied(s), NEW q \in Applied(s)
               PROVE  /\ record[p].supersedes \notin lost \cup {None} =>
                            /\ record[p].supersedes \in Applied(s)
                            /\ record[record[p].supersedes].proposed = record[p].original
                      /\ p # q /\ s \notin tangled =>
                            /\ record[p].original # record[q].original
                            /\ record[p].supersedes # record[q].supersedes
                                  \/ record[p].supersedes \in lost
    BY DEF RevisionsFormAHistory
  <2>1. p \in Proposal /\ q \in Proposal
    BY DEF Applied, Stored
  <2>2. PICK r \in Draft : r = record[p]
    BY DEF ProposalInv, ProposalTypeOK, Applied, Stored
  <2>3. Rests(r) /\ r.source = s
    BY <2>1, <2>2 DEF ProposalInv, RecordHolds, Applied
  <2> QED  BY <2>1, <2>2, <2>3 DEF ProposalInv, Distinct, Rests
<1> QED  BY <1>1, ProposalInvariant, PTL

(* Every proposal on disk has the snapshot of the text it was prepared for  *)
(* (prepare_proposal, _compensate_partial_proposal_record).                 *)
THEOREM SnapshotsAreBehind == ProposalSpec => []SnapshotsBehindRecords
<1>1. ProposalInv => SnapshotsBehindRecords
  BY DEF ProposalInv
<1> QED  BY <1>1, ProposalInvariant, PTL

(* A source is changed from the text an approved proposal was made for to   *)
(* the text it proposed, unless somebody changed the source between the     *)
(* comparison and the write (apply_proposals, publish_transaction).         *)
THEOREM AppliedWhatWasApproved == ProposalSpec => AppliesToWhatWasApproved
<1> DEFINE FromApproved(c, s) ==
        \E p \in process[c].batch :
          LET read == process[c].draft[p] IN
          /\ read.source = s /\ read.state = "approved"
          /\ read.original = text[s] /\ read.proposed = text'[s]
          /\ record[p] = read \/ p \in lost
<1>1. ASSUME ProposalInv, ProposalNext, NEW c \in Process, NEW s \in Source \ disturbed[c],
             process[c].at = "write", process'[c].at = "idle", text'[s] # text[s]
      PROVE  FromApproved(c, s)
  <2>1. CASE Edits
    BY <1>1, <2>1 DEF Edits
  <2>2. ASSUME NEW d \in Process, Publishes(d), d # c PROVE FALSE
    <3>1. process'[c] = process[c]
      BY <1>1, <2>2, LocalMoves, AbsentForm DEF Publishes, Ends, ProposalInv
    <3> QED  BY <1>1, <3>1
  <2>3. CASE Publishes(c)
    <3>1. PICK batch, read : batch = process[c].batch /\ read = process[c].draft
      OBVIOUS
    <3>2. Replaces(batch, read) /\ \A p \in batch : WriteHolds(c, p, read[p])
      BY <1>1, <2>3, <3>1, PublicationForm
    <3>3. PICK p \in batch : read[p].source = s
      BY <1>1, <3>2 DEF Replaces
    <3>4. PICK x \in Draft : x = read[p]
      BY <3>2, <3>3 DEF Replaces
    <3>5. x.source = s /\ x.state = "approved" /\ text'[s] = x.proposed
      BY <3>2, <3>3, <3>4 DEF Replaces
    <3>6. WriteHolds(c, p, x)
      BY <3>2, <3>3, <3>4
    <3>7. text[s] = x.original /\ (record[p] = x \/ p \in lost)
      BY <1>1, <3>5, <3>6 DEF WriteHolds
    <3> QED  BY <3>1, <3>3, <3>4, <3>5, <3>7
  <2>4. UNCHANGED text \/ Edits \/ \E d \in Process : Publishes(d)
    BY <1>1 DEF ProposalNext, ProposalStep, Command, Prepare, PrepareReads, PrepareChecks,
           PrepareSnapshots, PrepareRecords, Compensates, Unlinks, SupersedeReads,
           SupersedeWrites, ApplyReads, Compares, Calls, Files, World, Decides, Dies
  <2> QED  BY <1>1, <2>1, <2>2, <2>3, <2>4
<1>2. ProposalInv /\ [ProposalNext]_proposalVars =>
        [\A c \in Process : \A s \in Source \ disturbed[c] :
          process[c].at = "write" /\ process'[c].at = "idle" /\ text'[s] # text[s]
          => FromApproved(c, s)]_proposalVars
  BY <1>1
<1> QED  BY <1>2, ProposalInvariant, PTL DEF ProposalSpec, AppliesToWhatWasApproved

-----------------------------------------------------------------------------
(* ResearchCatalog: a validation that passes tells the truth.                *)
(* A set of commits listed for an occurrence is one of the time that the     *)
(* validation took so far.                                                   *)
Within(o, commits) == during.always[o] \subseteq commits /\ commits \subseteq during.ever[o]
AllWithin(lists) ==
    \A o \in DOMAIN lists : o \in Occurrence /\ Within(o, lists[o])
Extended(lists, o, list) ==
    [x \in DOMAIN lists \cup {o} |-> IF x = o THEN list ELSE lists[x]]
CommitsSeen(observations) == [o \in DOMAIN observations |-> observations[o][3]]

Listing == {"discover", "observe", "log"}
GitForm ==
    /\ git = [there |-> git.there, remote |-> git.remote, common |-> git.common,
              branch |-> git.branch, head |-> git.head]
    /\ git.there \subseteq Occurrence
ValidationForm ==
    /\ validation.at \in Listing \cup {"idle", "passed", "failed"}
    /\ validation = [at |-> validation.at, mode |-> validation.mode,
                     catalog |-> validation.catalog, roots |-> validation.roots,
                     todo |-> validation.todo, reading |-> validation.reading,
                     seen |-> validation.seen, again |-> validation.again,
                     log |-> validation.log]
    /\ \E a, b : validation.reading \in {<<>>, <<a>>, <<a, b>>}

(* What the history of a validation that runs says of the repositories now.  *)
HistoryIsTrue ==
    validation.at \in Listing =>
        /\ \A o \in Occurrence : Readable(o) => Within(o, Reachable(o))
        /\ during.there \subseteq git.there

GroupsMatch ==
    validation.mode = "full" =>
        /\ \A g \in validation.catalog.groups :
              /\ g.members \subseteq Occurrence
              /\ UNION {during.always[o] : o \in g.members} \subseteq g.commits
              /\ g.commits \subseteq UNION {during.ever[o] : o \in g.members}
        /\ during.there \subseteq DOMAIN validation.catalog.occurrences

ListsAreTrue ==
    /\ validation.at \in Listing =>
          AllWithin(CommitsSeen(validation.again)) /\ AllWithin(validation.log)
    /\ validation.at = "discover" /\ validation.mode = "full" =>
          during.there \subseteq DOMAIN validation.seen \cup validation.todo
                                   \cup UNION validation.roots
    /\ validation.at = "observe" => during.there \subseteq DOMAIN validation.seen
    /\ validation.at = "log" =>
          /\ \A g \in Selected(validation.mode, validation.catalog) :
                g.members \subseteq DOMAIN validation.log \cup validation.todo
          /\ GroupsMatch

CatalogInv == GitForm /\ ValidationForm /\ HistoryIsTrue /\ ListsAreTrue /\ ValidatedIsTrue

-----------------------------------------------------------------------------
LEMMA CatalogInitHolds == CatalogInit => CatalogInv
<1> SUFFICES ASSUME CatalogInit PROVE CatalogInv
  OBVIOUS
<1>1. validation = NoValidation
  BY DEF CatalogInit
<1>2. GitForm
  BY DEF CatalogInit, GitForm
<1> QED  BY <1>1, <1>2 DEF NoValidation, CatalogInv, ValidationForm, HistoryIsTrue,
                     ListsAreTrue, ValidatedIsTrue, Listing

LEMMA FailureKeeps ==
    ASSUME CatalogInv, UNCHANGED git,
           validation' \in {NoValidation, [NoValidation EXCEPT !.at = "failed"]}
    PROVE  CatalogInv'
<1>1. /\ validation'.at \in {"idle", "failed"} /\ validation'.reading = <<>>
      /\ validation' = [at |-> validation'.at, mode |-> validation'.mode,
                     catalog |-> validation'.catalog, roots |-> validation'.roots,
                     todo |-> validation'.todo, reading |-> validation'.reading,
                     seen |-> validation'.seen, again |-> validation'.again,
                     log |-> validation'.log]
  BY DEF NoValidation
<1>2. GitForm'
  BY DEF CatalogInv, GitForm
<1> QED  BY <1>1, <1>2 DEF CatalogInv, ValidationForm, HistoryIsTrue, ListsAreTrue,
                     ValidatedIsTrue, Listing

LEMMA BeginKeeps ==
    ASSUME CatalogInv, NEW mode \in {"full", "lane"}, BeginValidation(mode)
    PROVE  CatalogInv'
<1>1. CASE validation' = [NoValidation EXCEPT !.at = "failed"]
  BY <1>1, FailureKeeps DEF BeginValidation
<1>2. CASE /\ validation' = [NoValidation EXCEPT !.at = "discover", !.mode = mode,
                                 !.catalog = catalog, !.roots = Roots(mode, catalog)]
           /\ LET Now == [o \in Occurrence |-> IF Readable(o) THEN Reachable(o) ELSE {}] IN
              during' = [always |-> Now, ever |-> Now, there |-> git.there]
  <2>1. /\ validation'.at = "discover" /\ validation'.mode = mode
        /\ validation'.roots = Roots(mode, catalog) /\ validation'.reading = <<>>
        /\ validation'.again = <<>> /\ validation'.log = <<>>
        /\ validation'.todo = {} /\ validation'.seen = <<>>
    BY <1>2 DEF NoValidation
  <2>2. ValidationForm'
    BY <1>2, <2>1 DEF ValidationForm, NoValidation, Listing
  <2>3. HistoryIsTrue'
    <3>1. git' = git /\ \A o \in Occurrence : (Readable(o)' <=> Readable(o)) /\ Reachable(o)' = Reachable(o)
      BY DEF BeginValidation, Readable, Broken, Reachable, HeadOf, BranchOf
    <3> QED  BY <1>2, <3>1 DEF HistoryIsTrue, Within
  <2>4. DOMAIN validation'.again = {} /\ DOMAIN validation'.log = {}
    BY <2>1
  <2>5. during'.there \subseteq Occurrence /\ GitForm'
    BY <1>2 DEF CatalogInv, GitForm, BeginValidation
  <2> QED  BY <2>1, <2>2, <2>3, <2>4, <2>5 DEF CatalogInv, ListsAreTrue, ValidatedIsTrue, AllWithin, CommitsSeen, Roots
<1> QED  BY <1>1, <1>2 DEF BeginValidation

(* A step of the validation looks at repositories that do not move.          *)
LEMMA LooksKeep ==
    ASSUME CatalogInv, UNCHANGED <<git, catalog, during, changes>>,
           ValidationForm', validation.at \in Listing, ListsAreTrue', ValidatedIsTrue'
    PROVE  CatalogInv'
<1>1. GitForm'
  BY DEF CatalogInv, GitForm
<1>2. \A o \in Occurrence : (Readable(o)' <=> Readable(o)) /\ Reachable(o)' = Reachable(o)
  BY DEF Readable, Broken, Reachable, HeadOf, BranchOf
<1>3. HistoryIsTrue'
  BY <1>2 DEF CatalogInv, HistoryIsTrue, Within
<1> QED  BY <1>1, <1>3 DEF CatalogInv

LEMMA AllWithinStays ==
    ASSUME UNCHANGED during, NEW CONSTANT lists, AllWithin(lists)
    PROVE  AllWithin(lists)'
BY DEF AllWithin, Within

LEMMA OneMoreList ==
    ASSUME NEW lists, AllWithin(lists), NEW o \in Occurrence, NEW list, Within(o, list)
    PROVE  AllWithin(Extended(lists, o, list))
BY DEF AllWithin, Extended

LEMMA WalkKeeps == CatalogInv /\ WalkRoot => CatalogInv'
<1> SUFFICES ASSUME CatalogInv, WalkRoot PROVE CatalogInv'
  OBVIOUS
<1>1. PICK root \in validation.roots :
        validation' = [validation EXCEPT !.roots = @ \ {root}, !.todo = root \cap git.there]
  BY DEF WalkRoot, Validate
<1>2. /\ validation.at = "discover" /\ validation.todo = {}
      /\ UNCHANGED <<git, catalog, during, changes>>
  BY DEF WalkRoot, Validate
<1>3. /\ ValidationForm' /\ validation'.at = "discover" /\ validation'.mode = validation.mode
      /\ validation'.seen = validation.seen /\ validation'.again = validation.again
      /\ validation'.log = validation.log /\ validation'.roots = validation.roots \ {root}
      /\ validation'.todo = root \cap git.there
  BY <1>1, <1>2 DEF CatalogInv, ValidationForm
<1>4. ListsAreTrue'
  <2>1. during.there \subseteq git.there
    BY <1>2 DEF CatalogInv, HistoryIsTrue, Listing
  <2>2. AllWithin(CommitsSeen(validation.again))' /\ AllWithin(validation.log)'
    BY <1>2, <1>3 DEF CatalogInv, ListsAreTrue, Listing, AllWithin, Within, CommitsSeen
  <2>3. UNION validation.roots \subseteq root \cup UNION validation'.roots
    BY <1>3
  <2>4. validation.mode = "full" =>
           during.there \subseteq DOMAIN validation.seen \cup UNION validation.roots
    BY <1>2 DEF CatalogInv, ListsAreTrue
  <2> QED  BY <1>2, <1>3, <2>1, <2>2, <2>3, <2>4 DEF ListsAreTrue
<1>5. ValidatedIsTrue'
  BY <1>3 DEF ValidatedIsTrue
<1> QED  BY <1>2, <1>3, <1>4, <1>5, LooksKeep DEF Listing

(* An observation of discover, that of a broken pointer among them.          *)
LEMMA SeenKeeps ==
    ASSUME CatalogInv, validation.at = "discover", UNCHANGED <<git, catalog, during, changes>>,
           NEW CONSTANT o, NEW CONSTANT observation,
           validation' = [validation EXCEPT !.reading = <<>>, !.todo = @ \ {o},
                              !.seen = Extended(@, o, observation)]
    PROVE  CatalogInv'
<1>1. /\ ValidationForm' /\ validation'.at = "discover" /\ validation'.mode = validation.mode
      /\ DOMAIN validation'.seen = DOMAIN validation.seen \cup {o}
      /\ validation'.again = validation.again /\ validation'.log = validation.log
      /\ validation'.roots = validation.roots /\ validation'.todo = validation.todo \ {o}
  BY DEF CatalogInv, ValidationForm, Extended
<1>2. ListsAreTrue'
  <2>1. AllWithin(CommitsSeen(validation.again))' /\ AllWithin(validation.log)'
    BY <1>1 DEF CatalogInv, ListsAreTrue, Listing, AllWithin, Within, CommitsSeen
  <2>2. validation.mode = "full" =>
           during.there \subseteq DOMAIN validation.seen \cup validation.todo
                                    \cup UNION validation.roots
    BY DEF CatalogInv, ListsAreTrue
  <2> QED  BY <1>1, <2>1, <2>2 DEF ListsAreTrue
<1>3. ValidatedIsTrue'
  BY <1>1 DEF ValidatedIsTrue
<1> QED  BY <1>1, <1>2, <1>3, LooksKeep DEF Listing

LEMMA FindBrokenKeeps ==
    ASSUME CatalogInv, NEW CONSTANT o \in Occurrence, FindBroken(o)
    PROVE  CatalogInv'
<1>1. /\ validation.at = "discover" /\ validation.reading = <<>>
      /\ UNCHANGED <<git, catalog, during, changes>>
      /\ validation' = [validation EXCEPT !.todo = @ \ {o}, !.seen = Extended(@, o, Missing)]
  BY DEF FindBroken, Validate, Extended
<1>2. validation' = [validation EXCEPT !.reading = <<>>, !.todo = @ \ {o},
                                       !.seen = Extended(@, o, Missing)]
  BY <1>1 DEF CatalogInv, ValidationForm
<1> QED  BY <1>1, <1>2, SeenKeeps

LEMMA SecondAppended == ASSUME NEW a, NEW x PROVE Append(<<a>>, x) = <<a, x>>
<1> DEFINE s == Append(<<a>>, x)
           t == <<a, x>>
<1>1. <<a>> \in Seq({a, x}) /\ t \in Seq({a,x}) /\ Len(<<a>>) = 1 /\ <<a>>[1] = a
  OBVIOUS
<1>2. s \in Seq({a,x}) /\ Len(s) = 2 /\ s[1] = a /\ s[2] = x
  BY <1>1, AppendProperties
<1>3. Len(t) = 2 /\ t[1] = a /\ t[2] = x
  OBVIOUS
<1> HIDE DEF s, t
<1>4. \A i \in 1 .. Len(s) : s[i] = t[i]
  BY <1>2, <1>3
<1>5. s = t
  BY <1>1, <1>2, <1>3, <1>4, SeqEqual
<1> QED BY <1>5 DEF s, t
LEMMA ThirdAppended == ASSUME NEW a, NEW b, NEW x PROVE Append(<<a, b>>, x) = <<a, b, x>>
<1> DEFINE s == Append(<<a, b>>, x)
           t == <<a, b, x>>
<1>1. /\ <<a, b>> \in Seq({a, b, x}) /\ t \in Seq({a,b, x}) 
      /\ Len(<<a, b>>) = 2 /\ <<a,b>>[1] = a /\ <<a,b>>[2] = b
  OBVIOUS
<1>2. s \in Seq({a,b,x}) /\ Len(s) = 3 /\ s[1] = a /\ s[2] = b /\ s[3] = x
  BY <1>1, AppendProperties
<1>3. Len(t) = 3 /\ t[1] = a /\ t[2] = b /\ t[3] = x
  OBVIOUS
<1> HIDE DEF s, t
<1>4. \A i \in 1 .. Len(s) : s[i] = t[i]
  BY <1>2, <1>3
<1>5. s = t
  BY <1>1, <1>2, <1>3, <1>4, SeqEqual
<1> QED BY <1>5 DEF s, t

(* The third command of an observation lists what is reachable now.          *)
LEMMA ObservationForm ==
    ASSUME CatalogInv, NEW o \in Occurrence, NEW sofar,
           sofar = Append(validation.reading, Printed(o)[Len(validation.reading) + 1])
    PROVE  /\ Len(sofar) < 3 => \E a, b : sofar \in {<<>>, <<a>>, <<a, b>>}
           /\ ~(Len(sofar) < 3) => sofar[3] = Reachable(o)
<1>1. PICK a, b : validation.reading \in {<<>>, <<a>>, <<a, b>>}
  BY DEF CatalogInv, ValidationForm
<1>2. CASE validation.reading = <<>>
  <2>1. sofar = <<Printed(o)[1]>>
    BY <1>2
  <2> QED  BY <2>1
<1>3. CASE validation.reading = <<a>>
  <2>1. sofar = Append(<<a>>, Printed(o)[2])
    BY <1>3
  <2>2. sofar = <<a, Printed(o)[2]>>
    BY <2>1, SecondAppended
  <2> QED  BY <2>2
<1>4. CASE validation.reading = <<a, b>>
  <2>1. sofar = Append(<<a, b>>, Printed(o)[3])
    BY <1>4
  <2>2. sofar = <<a, b, Printed(o)[3]>>
    BY <2>1, ThirdAppended
  <2>3. Len(sofar) = 3 /\ sofar[3] = Printed(o)[3]
    BY <2>2
  <2> QED  BY <2>3 DEF Printed
<1> QED  BY <1>1, <1>2, <1>3, <1>4

LEMMA ObserveKeeps ==
    ASSUME CatalogInv, NEW CONSTANT o \in Occurrence, Observe(o)
    PROVE  CatalogInv'
<1>1. PICK sofar : sofar = Append(validation.reading, Printed(o)[Len(validation.reading) + 1])
  OBVIOUS
<1>2. /\ validation.at \in {"discover", "observe"} /\ Readable(o)
      /\ UNCHANGED <<git, catalog, during, changes>>
      /\ \/ Len(sofar) < 3 /\ validation' = [validation EXCEPT !.reading = sofar]
         \/ /\ ~(Len(sofar) < 3) /\ validation.at = "discover"
            /\ validation' = [validation EXCEPT !.reading = <<>>, !.todo = @ \ {o},
                                                !.seen = Extended(@, o, sofar)]
         \/ /\ ~(Len(sofar) < 3) /\ validation.at = "observe"
            /\ validation' = [validation EXCEPT !.reading = <<>>, !.todo = @ \ {o},
                                                !.again = Extended(@, o, sofar)]
  BY <1>1 DEF Observe, Validate, Extended
<1>3. /\ Len(sofar) < 3 => \E a, b : sofar \in {<<>>, <<a>>, <<a, b>>}
      /\ ~(Len(sofar) < 3) => sofar[3] = Reachable(o)
  BY <1>1, ObservationForm
<1>4. CASE Len(sofar) < 3
  <2>1. /\ ValidationForm' /\ validation'.at = validation.at
        /\ validation'.mode = validation.mode /\ validation'.catalog = validation.catalog
        /\ validation'.seen = validation.seen /\ validation'.again = validation.again
        /\ validation'.log = validation.log /\ validation'.roots = validation.roots
        /\ validation'.todo = validation.todo
    BY <1>2, <1>3, <1>4 DEF CatalogInv, ValidationForm
  <2>2. ListsAreTrue'
    BY <1>2, <2>1 DEF CatalogInv, ListsAreTrue, AllWithin, Within, CommitsSeen, GroupsMatch
  <2> QED  BY <1>2, <2>1, <2>2, LooksKeep DEF ValidatedIsTrue, Listing
<1>5. CASE /\ ~(Len(sofar) < 3) /\ validation.at = "discover"
           /\ validation' = [validation EXCEPT !.reading = <<>>, !.todo = @ \ {o},
                                               !.seen = Extended(@, o, sofar)]
  BY <1>2, <1>5, SeenKeeps
<1>6. CASE /\ ~(Len(sofar) < 3) /\ validation.at = "observe"
           /\ validation' = [validation EXCEPT !.reading = <<>>, !.todo = @ \ {o},
                                               !.again = Extended(@, o, sofar)]
  <2>1. /\ ValidationForm' /\ validation'.at = "observe"
        /\ validation'.seen = validation.seen /\ validation'.log = validation.log
        /\ validation'.again = Extended(validation.again, o, sofar)
    BY <1>6 DEF CatalogInv, ValidationForm
  <2>2. Within(o, sofar[3])
    BY <1>2, <1>3, <1>6 DEF CatalogInv, HistoryIsTrue, Listing
  <2>3. CommitsSeen(validation'.again) = Extended(CommitsSeen(validation.again), o, sofar[3])
    BY <2>1 DEF CommitsSeen, Extended
  <2>4. AllWithin(CommitsSeen(validation'.again))
    BY <1>6, <2>2, <2>3, OneMoreList DEF CatalogInv, ListsAreTrue, Listing
  <2>5. AllWithin(CommitsSeen(validation.again))' /\ AllWithin(validation.log)'
    BY <1>2, <1>6, <2>1, <2>4
       DEF CatalogInv, ListsAreTrue, Listing, AllWithin, Within, CommitsSeen
  <2>6. ListsAreTrue'
    BY <1>2, <1>6, <2>1, <2>5 DEF CatalogInv, ListsAreTrue
  <2> QED  BY <1>2, <2>1, <2>6, LooksKeep DEF ValidatedIsTrue, Listing
<1> QED  BY <1>2, <1>4, <1>5, <1>6

LEMMA ObserveAgainKeeps == CatalogInv /\ ObserveAgain => CatalogInv'
<1> SUFFICES ASSUME CatalogInv, ObserveAgain PROVE CatalogInv'
  OBVIOUS
<1>1. /\ validation.at = "discover" /\ validation.mode = "full" /\ validation.todo = {}
      /\ validation.roots = {} /\ UNCHANGED <<git, catalog, during, changes>>
      /\ validation' = [validation EXCEPT !.at = "observe", !.todo = Resolved(validation.seen)]
  BY DEF ObserveAgain, Validate
<1>2. /\ ValidationForm' /\ validation'.at = "observe"
      /\ validation'.seen = validation.seen /\ validation'.again = validation.again
      /\ validation'.log = validation.log
  BY <1>1 DEF CatalogInv, ValidationForm, Listing
<1>3. AllWithin(CommitsSeen(validation.again))' /\ AllWithin(validation.log)'
  BY <1>1, <1>2 DEF CatalogInv, ListsAreTrue, Listing, AllWithin, Within, CommitsSeen
<1>4. during.there \subseteq DOMAIN validation.seen
  BY <1>1 DEF CatalogInv, ListsAreTrue
<1>5. ListsAreTrue'
  BY <1>1, <1>2, <1>3, <1>4 DEF ListsAreTrue
<1> QED  BY <1>1, <1>2, <1>5, LooksKeep DEF ValidatedIsTrue, Listing

(* The inventory matches: each group of the catalog is a repository whose    *)
(* members were all observed since the validation began.                     *)
LEMMA GroupsAreObserved ==
    ASSUME CatalogInv, validation.at = "observe", InventoryMatches(validation)
    PROVE  GroupsMatch
<1>1. AllWithin(CommitsSeen(validation.again)) /\ during.there \subseteq DOMAIN validation.seen
  BY DEF CatalogInv, ListsAreTrue, Listing
<1>2. DOMAIN validation.seen = DOMAIN validation.catalog.occurrences
  BY DEF InventoryMatches
<1>3. ASSUME NEW g \in validation.catalog.groups
      PROVE  /\ g.members \subseteq Occurrence
             /\ UNION {during.always[o] : o \in g.members} \subseteq g.commits
             /\ g.commits \subseteq UNION {during.ever[o] : o \in g.members}
  <2>1. [members |-> g.members, refs |-> g.refs, commits |-> g.commits]
            \in Repositories(validation.again)
    BY DEF InventoryMatches
  <2>2. PICK m : /\ m \in {{q \in Resolved(validation.again) :
                               SameRepository(o, q, validation.again)} :
                                   o \in Resolved(validation.again)}
                 /\ [members |-> g.members, refs |-> g.refs, commits |-> g.commits]
                      = [members |-> m, refs |-> RefsOf(m, validation.again),
                         commits |-> CommitsOf(m, validation.again)]
    BY <2>1 DEF Repositories
  <2>3. m \subseteq DOMAIN validation.again
    BY <2>2 DEF Resolved
  <2>4. g.members = m /\ g.commits = UNION {validation.again[o][3] : o \in m}
    BY <2>2 DEF CommitsOf
  <2>5. \A o \in m : Within(o, validation.again[o][3])
    BY <1>1, <2>3 DEF AllWithin, CommitsSeen
  <2>6. m \subseteq Occurrence
    BY <1>1, <2>3 DEF AllWithin, CommitsSeen
  <2> QED  BY <2>4, <2>5, <2>6 DEF Within
<1> QED  BY <1>1, <1>2, <1>3 DEF GroupsMatch

LEMMA CompareKeeps == CatalogInv /\ CompareInventory => CatalogInv'
<1> SUFFICES ASSUME CatalogInv, CompareInventory PROVE CatalogInv'
  OBVIOUS
<1>1. CASE ValidationFails
  BY <1>1, FailureKeeps DEF ValidationFails
<1>2. CASE /\ validation.at = IF validation.mode = "full" THEN "observe" ELSE "discover"
           /\ validation.mode = "full" => InventoryMatches(validation)
           /\ Validate([validation EXCEPT !.at = "log", !.todo = UNION {g.members :
                         g \in Selected(validation.mode, validation.catalog)}])
  <2>1. /\ UNCHANGED <<git, catalog, during, changes>>
        /\ ValidationForm' /\ validation'.at = "log" /\ validation'.mode = validation.mode
        /\ validation'.catalog = validation.catalog
        /\ validation'.again = validation.again /\ validation'.log = validation.log
        /\ validation'.todo = UNION {g.members :
                                 g \in Selected(validation.mode, validation.catalog)}
    BY <1>2 DEF CatalogInv, ValidationForm, Validate, Listing
  <2>2. GroupsMatch
    BY <1>2, GroupsAreObserved DEF GroupsMatch
  <2>3. GroupsMatch'
    BY <2>1, <2>2 DEF GroupsMatch
  <2>4. validation.at \in Listing
    BY <1>2 DEF Listing
  <2>5. AllWithin(CommitsSeen(validation.again))' /\ AllWithin(validation.log)'
    BY <2>1, <2>4 DEF CatalogInv, ListsAreTrue, AllWithin, Within, CommitsSeen
  <2>6. ListsAreTrue'
    BY <2>1, <2>3, <2>5 DEF ListsAreTrue
  <2> QED  BY <2>1, <2>4, <2>6, LooksKeep DEF ValidatedIsTrue
<1> QED  BY <1>1, <1>2 DEF CompareInventory

LEMMA ListCommitsKeeps ==
    ASSUME CatalogInv, NEW CONSTANT o \in Occurrence, ListCommits(o)
    PROVE  CatalogInv'
<1>1. /\ validation.at = "log" /\ Readable(o) /\ UNCHANGED <<git, catalog, during, changes>>
      /\ validation' = [validation EXCEPT !.todo = @ \ {o},
                                          !.log = Extended(@, o, Reachable(o))]
  BY DEF ListCommits, Validate, Extended
<1>2. /\ ValidationForm' /\ validation'.at = "log" /\ validation'.mode = validation.mode
      /\ validation'.catalog = validation.catalog /\ validation'.again = validation.again
      /\ validation'.todo = validation.todo \ {o}
      /\ validation'.log = Extended(validation.log, o, Reachable(o))
  BY <1>1 DEF CatalogInv, ValidationForm
<1>3. AllWithin(validation'.log)
  BY <1>1, <1>2, OneMoreList DEF CatalogInv, ListsAreTrue, HistoryIsTrue, Listing
<1>4. AllWithin(CommitsSeen(validation.again))' /\ AllWithin(validation.log)'
  BY <1>1, <1>2, <1>3 DEF CatalogInv, ListsAreTrue, Listing, AllWithin, Within, CommitsSeen
<1>5. DOMAIN validation'.log = DOMAIN validation.log \cup {o}
  BY <1>2 DEF Extended
<1>6. GroupsMatch' /\ \A g \in Selected(validation.mode, validation.catalog) :
                         g.members \subseteq DOMAIN validation.log \cup validation.todo
  BY <1>1, <1>2 DEF CatalogInv, ListsAreTrue, GroupsMatch
<1>7. ListsAreTrue'
  BY <1>2, <1>4, <1>5, <1>6 DEF ListsAreTrue
<1> QED  BY <1>1, <1>2, <1>7, LooksKeep DEF ValidatedIsTrue, Listing

(* What was listed of the members of a group, against the history.           *)
LEMMA ListedIsTrue ==
    ASSUME CatalogInv, validation.at = "log", validation.todo = {},
           NEW g \in Selected(validation.mode, validation.catalog)
    PROVE  /\ UNION {during.always[o] : o \in g.members} \subseteq Listed(validation, g)
           /\ Listed(validation, g) \subseteq UNION {during.ever[o] : o \in g.members}
<1>1. AllWithin(validation.log) /\ g.members \subseteq DOMAIN validation.log
  BY DEF CatalogInv, ListsAreTrue, Listing
<1>2. \A o \in g.members : Within(o, validation.log[o])
  BY <1>1 DEF AllWithin
<1> QED  BY <1>2 DEF Within, Listed

LEMMA JudgeKeeps == CatalogInv /\ JudgeGroups => CatalogInv'
<1> SUFFICES ASSUME CatalogInv, JudgeGroups PROVE CatalogInv'
  OBVIOUS
<1>1. CASE ValidationFails
  BY <1>1, FailureKeeps DEF ValidationFails
<1>2. CASE /\ \A g \in Selected(validation.mode, validation.catalog) :
                 IF validation.mode = "full" THEN AllJudged(validation, g)
                                             ELSE LaneJudged(validation, g)
           /\ Validate([validation EXCEPT !.at = "passed"])
  <2>1. /\ UNCHANGED <<git, catalog, during, changes>>
        /\ ValidationForm' /\ validation'.at = "passed" /\ validation'.mode = validation.mode
        /\ validation'.catalog = validation.catalog
    BY <1>2 DEF CatalogInv, ValidationForm, Validate, Listing
  <2>2. validation.at = "log" /\ validation.todo = {}
    BY DEF JudgeGroups
  <2>3. GroupsMatch
    BY <2>2 DEF CatalogInv, ListsAreTrue
  <2>4. ASSUME NEW g \in Selected(validation.mode, validation.catalog)
        PROVE  LET always == UNION {during.always[o] : o \in g.members}
                   ever == UNION {during.ever[o] : o \in g.members} IN
               /\ always \cap Qualifying \subseteq g.dispositions
               /\ g.dispositions \subseteq ever \cap Qualifying
               /\ always \subseteq g.commits /\ g.commits \subseteq ever
    <3> DEFINE always == UNION {during.always[o] : o \in g.members}
               ever == UNION {during.ever[o] : o \in g.members}
    <3>1. always \subseteq Listed(validation, g) /\ Listed(validation, g) \subseteq ever
      BY <2>2, ListedIsTrue
    <3>2. g.dispositions = Qualifying \cap Listed(validation, g)
      BY <1>2 DEF AllJudged, LaneJudged, Classified
    <3>3. always \subseteq g.commits /\ g.commits \subseteq ever
      <4>1. CASE validation.mode = "full"
        BY <2>3, <4>1 DEF GroupsMatch, Selected
      <4>2. CASE validation.mode # "full"
        <5>1. Listed(validation, g) = g.commits
          BY <1>2, <4>2 DEF LaneJudged
        <5> QED  BY <3>1, <5>1
      <4> QED  BY <4>1, <4>2
    <3> HIDE DEF always, ever
    <3>4. /\ always \cap Qualifying \subseteq g.dispositions
          /\ g.dispositions \subseteq ever \cap Qualifying
      BY <3>1, <3>2
    <3> QED  BY <3>3, <3>4 DEF always, ever
  <2>5. ValidatedIsTrue'
    BY <2>1, <2>3, <2>4 DEF ValidatedIsTrue, GroupsMatch
  <2>6. ListsAreTrue'
    BY <2>1 DEF ListsAreTrue, Listing
  <2> QED  BY <2>1, <2>2, <2>5, <2>6, LooksKeep DEF Listing
<1> QED  BY <1>1, <1>2 DEF JudgeGroups

(* The user changes the repositories: the history always shrinks and ever    *)
(* grows, so a list that lay between them stays there.                       *)
LEMMA UserKeeps == CatalogInv /\ UserWorks => CatalogInv'
<1> SUFFICES ASSUME CatalogInv, UserWorks PROVE CatalogInv'
  OBVIOUS
<1>1. validation' = validation /\ catalog' = catalog /\ ValidationForm'
  BY DEF UserWorks, CatalogInv, ValidationForm
<1>2. GitForm'
  BY DEF UserWorks, GitStates, CatalogInv, GitForm
<1>3. CASE validation.at \notin Listing
  <2>1. during' = during
    BY <1>3 DEF UserWorks, Listing
  <2>2. ValidatedIsTrue'
    BY <1>1, <2>1 DEF CatalogInv, ValidatedIsTrue
  <2> QED  BY <1>1, <1>2, <1>3, <2>2 DEF CatalogInv, HistoryIsTrue, ListsAreTrue, Listing
<1>4. CASE validation.at \in Listing
  <2>1. during' = [always |-> [o \in Occurrence |->
                       IF Readable(o)' THEN during.always[o] \cap Reachable(o)' ELSE {}],
                   ever |-> [o \in Occurrence |->
                       during.ever[o] \cup IF Readable(o)' THEN Reachable(o)' ELSE {}],
                   there |-> during.there \cap git'.there]
    BY <1>4 DEF UserWorks, Listing
  <2>2. /\ during'.there \subseteq during.there
        /\ during'.there \subseteq git'.there
        /\ \A o \in Occurrence : /\ during'.always[o] \subseteq during.always[o]
                                 /\ during.ever[o] \subseteq during'.ever[o]
                                 /\ Readable(o)' => /\ during'.always[o] \subseteq Reachable(o)'
                                                    /\ Reachable(o)' \subseteq during'.ever[o]
    BY <2>1
  <2>3. HistoryIsTrue'
    BY <2>2 DEF HistoryIsTrue, Within
  <2>4. AllWithin(CommitsSeen(validation.again))' /\ AllWithin(validation.log)'
    BY <1>1, <1>4, <2>2 DEF CatalogInv, ListsAreTrue, AllWithin, Within, CommitsSeen
  <2>5. GroupsMatch => GroupsMatch'
    <3> SUFFICES ASSUME GroupsMatch, validation.mode = "full" PROVE GroupsMatch'
      BY <1>1 DEF GroupsMatch
    <3>1. ASSUME NEW g \in validation.catalog.groups
          PROVE  /\ g.members \subseteq Occurrence
                 /\ UNION {during'.always[o] : o \in g.members} \subseteq g.commits
                 /\ g.commits \subseteq UNION {during'.ever[o] : o \in g.members}
      <4>1. /\ g.members \subseteq Occurrence
            /\ UNION {during.always[o] : o \in g.members} \subseteq g.commits
            /\ g.commits \subseteq UNION {during.ever[o] : o \in g.members}
        BY DEF GroupsMatch
      <4> QED  BY <2>2, <4>1
    <3> QED  BY <1>1, <2>2, <3>1 DEF GroupsMatch
  <2>6. ListsAreTrue'
    BY <1>1, <1>4, <2>2, <2>4, <2>5 DEF CatalogInv, ListsAreTrue
  <2>7. ValidatedIsTrue'
    BY <1>1, <1>4 DEF ValidatedIsTrue, Listing
  <2> QED  BY <1>1, <1>2, <2>3, <2>6, <2>7 DEF CatalogInv
<1> QED  BY <1>3, <1>4

LEMMA CatalogStays == CatalogInv /\ UNCHANGED <<git, validation, during>> => CatalogInv'
<1> SUFFICES ASSUME CatalogInv, UNCHANGED <<git, validation, during>> PROVE CatalogInv'
  OBVIOUS
<1>1. \A o \in Occurrence : (Readable(o)' <=> Readable(o)) /\ Reachable(o)' = Reachable(o)
  BY DEF Readable, Broken, Reachable, HeadOf, BranchOf
<1>2. GitForm' /\ ValidationForm'
  BY DEF CatalogInv, GitForm, ValidationForm
<1>3. HistoryIsTrue'
  BY <1>1 DEF CatalogInv, HistoryIsTrue, Within
<1>4. ListsAreTrue' /\ ValidatedIsTrue'
  BY DEF CatalogInv, ListsAreTrue, GroupsMatch, AllWithin, Within, CommitsSeen, ValidatedIsTrue
<1> QED  BY <1>2, <1>3, <1>4 DEF CatalogInv

(* CatalogInv is an invariant of a validation next to the user, whatever     *)
(* the repositories, the commits and the changes (validate_research).        *)
THEOREM CatalogInvariant == CatalogSpec => []CatalogInv
<1>1. CatalogInit => CatalogInv
  BY CatalogInitHolds
<1>2. CatalogInv /\ [CatalogNext]_catalogVars => CatalogInv'
  <2> SUFFICES ASSUME CatalogInv, [CatalogNext]_catalogVars PROVE CatalogInv'
    OBVIOUS
  <2>1. CASE \E mode \in {"full", "lane"} : BeginValidation(mode)
    BY <2>1, BeginKeeps
  <2>2. CASE WalkRoot
    BY <2>2, WalkKeeps
  <2>3. CASE ObserveAgain
    BY <2>3, ObserveAgainKeeps
  <2>4. CASE CompareInventory
    BY <2>4, CompareKeeps
  <2>5. CASE JudgeGroups
    BY <2>5, JudgeKeeps
  <2>6. CASE CommandFails
    BY <2>6, FailureKeeps DEF CommandFails, ValidationFails
  <2>7. CASE ReportIssues
    BY <2>7, FailureKeeps DEF ReportIssues
  <2>8. ASSUME NEW CONSTANT o \in Occurrence, FindBroken(o) \/ Observe(o) \/ ListCommits(o)
        PROVE  CatalogInv'
    BY <2>8, FindBrokenKeeps, ObserveKeeps, ListCommitsKeeps
  <2>9. CASE UserWorks
    BY <2>9, UserKeeps
  <2>10. CASE Research
    BY <2>10, CatalogStays DEF Research
  <2>11. CASE UNCHANGED catalogVars
    BY <2>11, CatalogStays DEF catalogVars
  <2> QED  BY <2>1, <2>2, <2>3, <2>4, <2>5, <2>6, <2>7, <2>8, <2>9, <2>10, <2>11
              DEF CatalogNext
<1> QED  BY <1>1, <1>2, PTL DEF CatalogSpec

(* A validation that passes tells the truth of the time it took: nothing that *)
(* qualified throughout is without its disposition, and no disposition is of *)
(* what could never be reached (validate_research,                           *)
(* _validate_selected_live_dispositions).                                    *)
THEOREM ValidationsAreTrue == CatalogSpec => []ValidatedIsTrue
<1>1. CatalogInv => ValidatedIsTrue
  BY DEF CatalogInv
<1> QED  BY <1>1, CatalogInvariant, PTL
=============================================================================
