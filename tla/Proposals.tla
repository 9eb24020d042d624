------------------------------ MODULE Proposals ------------------------------
(* portfolio_research: the life of a narrative proposal.  It is prepared as *)
(* a snapshot of its source and a draft record, approved or rejected by the *)
(* user in the record itself, applied or superseded.  An application        *)
(* compares its targets and then writes them, here in one step              *)
(* (ProposalBatch models the writes one by one, with what can fail).        *)
(* Nothing locks the research root: the commands run next to each other and *)
(* next to the user's editor.                                               *)
EXTENDS Integers, FiniteSets

CONSTANTS
    Source,       \* narrative sources
    Text,         \* the texts of a source
    Proposal,     \* proposal IDs
    Evidence,     \* evidence IDs, a proposal cites one
    Process,      \* commands that can run at the same time
    None,
    MaxEdits, MaxFaults, MaxCalls       \* bounds

Draft ==
    [source : Source, original : Text, proposed : Text, evidence : Evidence,
     supersedes : Proposal \cup {None}, review : Nat \cup {None},
     state : {"draft", "approved", "rejected", "applied", "superseded"}]

ASSUME ProposalBounds ==
    /\ MaxEdits \in Nat /\ MaxFaults \in Nat /\ MaxCalls \in Nat
    /\ None \notin Proposal \cup Source \cup Process \cup Text \cup Nat
    /\ None \notin Draft

VARIABLES
    text,       \* text[s]: the narrative source
    record,     \* record[p]: proposals/<p>.md, or None
    snapshot,   \* snapshot[p][s]: snapshots/<p>/<s>, or None
    review,     \* review[p]: digest of reviews/<p>.md, or None
    mapped,     \* mapped[e]: the source manifest and mapping give e, or None
    process,    \* process[c]: the command being executed
    spent,      \* edits, faults (deaths too) and calls that have happened
    lost,       \* records that changed while a supersession was under way
    past,       \* past[s]: the texts a source has had
    disturbed,  \* disturbed[c]: the sources that changed since an application
                \* compared its targets
    tangled     \* sources to which a text came back, or of which an application
                \* overwrote a change it had not seen

(* what has happened, and nothing reads                                     *)
history == <<past, disturbed, tangled>>
proposalVars == <<text, record, snapshot, review, mapped, process, spent, lost, history>>

Absent == [at |-> "idle", id |-> None, draft |-> None, batch |-> None]

ProposalInit ==
    /\ text \in [Source -> Text]
    /\ record = [p \in Proposal |-> None]
    /\ snapshot = [p \in Proposal |-> [s \in Source |-> None]]
    /\ review = [p \in Proposal |-> None]
    /\ mapped \in [Evidence -> Source]
    /\ process = [c \in Process |-> Absent]
    /\ spent = [edits |-> 0, faults |-> 0, calls |-> 0]
    /\ lost = {}
    /\ past = [s \in Source |-> {text[s]}]
    /\ disturbed = [c \in Process |-> {}]
    /\ tangled = {}

Stored == {p \in Proposal : record[p] # None}
Applied(s) ==
    {p \in Stored : record[p].state = "applied" /\ record[p].source = s}

Calls(c) ==
    /\ process[c].at = "idle"
    /\ spent.calls < MaxCalls
    /\ spent' = [spent EXCEPT !.calls = @ + 1]
    /\ UNCHANGED <<text, record, snapshot, review, mapped, lost>>
Goto(c, local) == process' = [process EXCEPT ![c] = local]
Ends(c) == Goto(c, Absent)
Files == <<text, record, snapshot, review, mapped, lost>>

(* _validate_proposal_evidence: the evidence is known, belongs to the       *)
(* context of the source and its project is mapped to it                    *)
EvidenceHolds(r) == mapped[r.evidence] = r.source
(* _validate_proposal_review                                                *)
ReviewHolds(p, r) == r.review # None => review[p] = r.review

-----------------------------------------------------------------------------
(* prepare_proposal, up to the reading of the source.  Two commands never   *)
(* prepare one ID at the same time.                                         *)
PrepareReads(c) ==
    /\ Calls(c)
    /\ \E p \in Proposal, s \in Source, proposed \in Text, e \in Evidence,
          prior \in Stored \cup {None}, reviewed \in BOOLEAN :
        /\ prior # p
        /\ \A other \in Process : process[other].id # p
        /\ Goto(c, [Absent EXCEPT !.at = "check", !.id = p,
                !.draft = [source |-> s, original |-> text[s], proposed |-> proposed,
                           evidence |-> e, supersedes |-> prior, state |-> "draft",
                           review |-> IF reviewed THEN 0 ELSE None]])

(* mutation: the superseded proposal need not have been applied             *)
RevisionOfAnyProposal(p, r) ==
    IF r.supersedes = None THEN Applied(r.source) = {}
    ELSE /\ r.supersedes \in Stored
         /\ record[r.supersedes].proposed = r.original
         /\ \A q \in Stored \ {p} : record[q].supersedes # r.supersedes
(* the records that exist decide which revision may come next               *)
RevisionAllowed(p, r) ==
    IF r.supersedes = None THEN Applied(r.source) = {}
    ELSE /\ r.supersedes \in Applied(r.source)
         /\ record[r.supersedes].proposed = r.original
         /\ \A q \in Stored \ {p} : record[q].supersedes # r.supersedes

PrepareChecks(c) ==
    LET r == process[c].draft IN
    /\ process[c].at = "check"
    /\ IF EvidenceHolds(r) /\ RevisionAllowed(process[c].id, r)
       THEN Goto(c, [process[c] EXCEPT !.at = "snapshot"])
       ELSE Ends(c)
    /\ UNCHANGED <<Files, spent>>
(* then the digest of the review is taken, which must exist by now          *)
PrepareReviews(c) ==
    LET r == process[c].draft
        seen == IF r.review = None THEN None ELSE review[process[c].id] IN
    IF r.review # None /\ seen = None THEN Ends(c)
    ELSE Goto(c, [process[c] EXCEPT !.at = "record",
                                    !.draft = [r EXCEPT !.review = seen]])

(* mutation: a snapshot with other bytes is replaced                        *)
SnapshotsAnew(c) ==
    LET p == process[c].id
        r == process[c].draft IN
    /\ process[c].at = "snapshot"
    /\ snapshot' = [snapshot EXCEPT ![p][r.source] = r.original]
    /\ PrepareReviews(c)
    /\ UNCHANGED <<text, record, review, mapped, spent, lost>>
(* a snapshot of an earlier attempt is kept if it holds the same text       *)
PrepareSnapshots(c) ==
    LET p == process[c].id
        r == process[c].draft IN
    /\ process[c].at = "snapshot"
    /\ IF snapshot[p][r.source] \in {None, r.original}
       THEN /\ snapshot' = [snapshot EXCEPT ![p][r.source] = r.original]
            /\ PrepareReviews(c)
       ELSE Ends(c) /\ UNCHANGED snapshot
    /\ UNCHANGED <<text, record, review, mapped, spent, lost>>

(* A record that exists is returned or refused, never replaced.  A write    *)
(* that fails leaves nothing, or, past the rename, the record, and then     *)
(* both files are taken back.                                               *)
PrepareRecords(c) ==
    LET p == process[c].id
        Fails == spent.faults < MaxFaults
                 /\ spent' = [spent EXCEPT !.faults = @ + 1]
        Writes == record' = [record EXCEPT ![p] = process[c].draft] IN
    /\ process[c].at = "record"
    /\ \/ record[p] # None /\ Ends(c) /\ UNCHANGED <<record, spent>>
       \/ record[p] = None /\ Writes /\ Ends(c) /\ UNCHANGED spent
       \/ /\ record[p] = None /\ Fails
          /\ \/ UNCHANGED record /\ Ends(c)
             \/ Writes /\ Goto(c, [process[c] EXCEPT !.at = "compensate"])
    /\ UNCHANGED <<text, snapshot, review, mapped, lost>>

(* _compensate_partial_proposal_record: source, snapshot and record must be *)
(* as this command left them; the record goes first, then the snapshot      *)
Compensates(c) ==
    LET p == process[c].id
        r == process[c].draft IN
    /\ process[c].at = "compensate"
    /\ IF text[r.source] = r.original /\ snapshot[p][r.source] = r.original /\ record[p] = r
       THEN /\ record' = [record EXCEPT ![p] = None]
            /\ Goto(c, [process[c] EXCEPT !.at = "unlink"])
       ELSE Ends(c) /\ UNCHANGED record
    /\ UNCHANGED <<text, snapshot, review, mapped, spent, lost>>
Unlinks(c) ==
    /\ process[c].at = "unlink"
    /\ snapshot' = [snapshot EXCEPT ![process[c].id][process[c].draft.source] = None]
    /\ Ends(c)
    /\ UNCHANGED <<text, record, review, mapped, spent, lost>>

Prepare(c) ==
    \/ PrepareReads(c)
    \/ PrepareChecks(c)
    \/ PrepareSnapshots(c)
    \/ PrepareRecords(c)
    \/ Compensates(c)
    \/ Unlinks(c)

-----------------------------------------------------------------------------
(* supersede_draft: the record is loaded and compared, then written whole   *)
SupersedeReads(c) ==
    /\ Calls(c)
    /\ \E p \in Stored :
        /\ record[p].state = "draft"
        /\ Goto(c, [Absent EXCEPT !.at = "supersede", !.draft = record[p], !.batch = {p}])
SupersedeWrites(c) ==
    /\ process[c].at = "supersede"
    /\ LET p == CHOOSE q \in process[c].batch : TRUE IN
       /\ record' = [record EXCEPT ![p] =
                        [process[c].draft EXCEPT !.state = "superseded"]]
       /\ lost' = IF record[p] = process[c].draft THEN lost ELSE lost \cup {p}
    /\ Ends(c)
    /\ UNCHANGED <<text, snapshot, review, mapped, spent>>

(* apply_proposals up to the transaction: every proposal of the batch is    *)
(* approved (one applied already changes nothing), its evidence, review and *)
(* snapshot hold, its source has the digest it was prepared for             *)
Applicable(p) ==
    LET r == record[p] IN
    /\ r.state = "approved"
    /\ EvidenceHolds(r) /\ ReviewHolds(p, r)
    /\ snapshot[p][r.source] = r.original
    /\ text[r.source] = r.original
ApplyReads(c) ==
    /\ Calls(c)
    /\ \E batch \in SUBSET Stored :
        /\ batch # {}
        /\ \A p \in batch : Applicable(p)
        /\ \A p, q \in batch : record[p].source = record[q].source => p = q
        /\ Goto(c, [Absent EXCEPT !.at = "publish", !.batch = batch,
                                  !.draft = [p \in batch |-> record[p]]])
(* mutation: only the records are compared before they are replaced         *)
ComparesRecords(c) ==
    /\ process[c].at = "publish"
    /\ IF \A p \in process[c].batch : record[p] = process[c].draft[p]
       THEN Goto(c, [process[c] EXCEPT !.at = "write"])
       ELSE Ends(c)
    /\ UNCHANGED <<Files, spent>>
(* publish_transaction: source and record of every proposal still have      *)
(* their digests ...                                                        *)
Compares(c) ==
    LET read == process[c].draft IN
    /\ process[c].at = "publish"
    /\ IF \A p \in process[c].batch :
             record[p] = read[p] /\ text[read[p].source] = read[p].original
       THEN Goto(c, [process[c] EXCEPT !.at = "write"])
       ELSE Ends(c)
    /\ UNCHANGED <<Files, spent>>
(* ... and are replaced, whatever they hold by now                          *)
Publishes(c) ==
    LET batch == process[c].batch
        read == process[c].draft
        About(s) == {p \in batch : read[p].source = s} IN
    /\ process[c].at = "write"
    /\ record' = [p \in Proposal |-> IF p \in batch
           THEN [read[p] EXCEPT !.state = "applied"] ELSE record[p]]
    /\ text' = [s \in Source |-> IF About(s) = {} THEN text[s]
                                 ELSE read[CHOOSE p \in About(s) : TRUE].proposed]
    /\ Ends(c)
    /\ UNCHANGED <<snapshot, review, mapped, spent, lost>>

Command(c) ==
    \/ Prepare(c)
    \/ SupersedeReads(c) \/ SupersedeWrites(c)
    \/ ApplyReads(c) \/ Compares(c) \/ Publishes(c)

-----------------------------------------------------------------------------
(* The user: decides about drafts, edits sources and reviews, maps evidence *)
Decides(p, state) ==
    /\ record[p] # None
    /\ record[p].state = "draft"
    /\ record' = [record EXCEPT ![p].state = state]
    /\ UNCHANGED <<text, snapshot, review, mapped, process, spent, lost>>
Edits ==
    /\ spent.edits < MaxEdits
    /\ spent' = [spent EXCEPT !.edits = @ + 1]
    /\ \/ \E s \in Source, t \in Text : text' = [text EXCEPT ![s] = t]
                                       /\ UNCHANGED <<review, mapped>>
       \/ \E p \in Proposal : review' = [review EXCEPT ![p] = spent'.edits]
                              /\ UNCHANGED <<text, mapped>>
       \/ \E e \in Evidence, s \in Source \cup {None} : mapped' = [mapped EXCEPT ![e] = s]
                                            /\ UNCHANGED <<text, review>>
    /\ UNCHANGED <<record, snapshot, process, lost>>
Dies(c) ==
    /\ process[c].at # "idle"
    /\ spent.faults < MaxFaults
    /\ spent' = [spent EXCEPT !.faults = @ + 1]
    /\ Ends(c)
    /\ UNCHANGED Files
World ==
    \/ \E p \in Proposal, state \in {"approved", "rejected"} : Decides(p, state)
    \/ Edits
    \/ \E c \in Process : Dies(c)

(* A source changes when its text does or a proposal about it is applied.   *)
Changes(s) == text'[s] # text[s] \/ \E p \in Applied(s)' : record'[p] # record[p]
WritesUnseen(c, s) ==
    process[c].at = "write" /\ process'[c].at # "write" /\ s \in disturbed[c]
Remembers ==
    /\ past' = [s \in Source |-> past[s] \cup {text'[s]}]
    /\ disturbed' = [c \in Process |-> IF process'[c].at = "write"
           THEN disturbed[c] \cup {s \in Source : text'[s] # text[s]} ELSE {}]
    /\ tangled' = tangled \cup {s \in Source :
           /\ Changes(s)
           /\ text'[s] \in past[s] \/ \E c \in Process : WritesUnseen(c, s)}

ProposalStep == (\E c \in Process : Command(c)) \/ World
ProposalNext == ProposalStep /\ Remembers

ProposalSpec == ProposalInit /\ [][ProposalNext]_proposalVars

-----------------------------------------------------------------------------
(* The applied proposals of a source form one history: every one that       *)
(* supersedes another started from its output, and while no text came back  *)
(* to the source and no application overwrote a change made since it        *)
(* compared its targets, no text was replaced twice, only one of them       *)
(* supersedes nothing and none is superseded twice; all but for records     *)
(* that changed under a supersession, which writes back what it had read.   *)
(* (prepare_proposal, apply_proposals and what _validate_proposal_revisions *)
(* demands.)                                                                *)
RevisionsFormAHistory ==
    \A s \in Source : \A p, q \in Applied(s) :
        LET prior == record[p].supersedes IN
        /\ prior \notin lost \cup {None} =>
              prior \in Applied(s) /\ record[prior].proposed = record[p].original
        /\ p # q /\ s \notin tangled =>
              /\ record[p].original # record[q].original
              /\ prior # record[q].supersedes \/ prior \in lost

(* Every proposal on disk has the snapshot of the text it was prepared for, *)
(* whatever attempt wrote it and wherever one died: what an application     *)
(* replaces can be put back by hand (prepare_proposal,                      *)
(* _compensate_partial_proposal_record), but for the record a supersession  *)
(* writes back after it was taken away.                                     *)
SnapshotsBehindRecords ==
    \A p \in Stored \ lost : snapshot[p][record[p].source] = record[p].original

(* An application changes a source only from the text the user approved a   *)
(* change of, to the text approved, unless the source changed after the     *)
(* application compared its targets: such a change is overwritten           *)
(* (apply_proposals, publish_transaction).                                  *)
AppliesToWhatWasApproved ==
    [][\A c \in Process : \A s \in Source \ disturbed[c] :
          process[c].at = "write" /\ process'[c].at = "idle" /\ text'[s] # text[s]
          => \E p \in process[c].batch :
                LET read == process[c].draft[p] IN
                /\ read.source = s /\ read.state = "approved"
                /\ read.original = text[s] /\ read.proposed = text'[s]
                /\ record[p] = read \/ p \in lost]_proposalVars
=============================================================================
