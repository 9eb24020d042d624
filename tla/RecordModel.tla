---------------------------- MODULE RecordModel ----------------------------
(***************************************************************************)
(* The canonical job record of jobs/domain/model.py together with the two  *)
(* documents stored beside it, and what each write operation of            *)
(* JDRecordRepository (jobs/adapters/storage/file_records.py) makes of the *)
(* record it found.  Texts are opaque values: a member of Jd stands for a  *)
(* JD document and the company, position and source URL every caller       *)
(* passes with it, a content hash for the text it was computed from, an    *)
(* application event for its status.                                       *)
(***************************************************************************)
EXTENDS Integers, Sequences

CONSTANTS
    None,       \* Python's None; also: no such file
    Jd,         \* JD documents
    Screening,  \* screening documents
    Verdict, Provider, Reason,
    Status,     \* ApplicationStatus
    Posting     \* PostingStatus

ASSUME NoneIsNoValue ==
    None \notin Jd \cup Screening \cup Verdict \cup Provider \cup Reason
                \cup Status \cup Posting \cup BOOLEAN

Optional(S) == S \cup {None}

(* JobRecord, jd.md and screening.md, as StoredJobRecord bundles them. *)
Stored == [jd: Jd, screening: Optional(Screening),
           verdict: Optional(Verdict), provider: Optional(Provider),
           capped: BOOLEAN, prescreen: Optional(Reason),
           status: Status, posting: Posting, history: Seq(Status)]

(* JobRecord.__post_init__: the last event is the current status; a record *)
(* that breaks this can no longer be loaded.                               *)
LatestEventProjects(s) ==
    s.history # <<>> => s.status = s.history[Len(s.history)]
Loadable == {s \in Stored : LatestEventProjects(s)}

-----------------------------------------------------------------------------
(* The operations.  A field that is None keeps what is stored; an expected *)
(* value is the set of values the caller accepts, every value when the     *)
(* caller states no precondition.                                          *)

SaveOp      == [kind: {"create", "save"}, record: Loadable]
ScreeningOp == [kind: {"screening_result"}, screening: Screening,
                verdict: Optional(Verdict), provider: Optional(Provider),
                capped: Optional(BOOLEAN),
                expected: [posting: SUBSET Posting,
                           provider: SUBSET Optional(Provider),
                           screening: SUBSET Optional(Screening),
                           jd: SUBSET Jd]]
ReplaceOp   == [kind: {"replace_jd"}, jd: Jd]
VerdictOp   == [kind: {"verdict"}, verdict: Verdict, reason: Optional(Reason)]
PrescreenOp == [kind: {"prescreen"}, reason: Reason]
StatusOp    == [kind: {"status"}, status: Optional(Status),
                posting: Optional(Posting)]
ReadOp      == [kind: {"get", "metadata"}]

WriteOp == SaveOp \cup ScreeningOp \cup ReplaceOp \cup VerdictOp
           \cup PrescreenOp \cup StatusOp
Op == WriteOp \cup ReadOp

IsSave(op)    == op.kind \in {"create", "save"}
IsRead(op)    == op.kind \in {"get", "metadata"}
WritesContent(op) ==
    op.kind \in {"create", "save", "screening_result", "replace_jd"}

-----------------------------------------------------------------------------
Or(new, old) == IF new = None THEN old ELSE new

(* _save against no record stores what it was given; against a record it   *)
(* refreshes the JD and keeps everything else (_merge_refresh_record).     *)
Saved(op, cur) == IF cur = None THEN op.record
                  ELSE [cur EXCEPT !.jd = op.record.jd]

Screened(op, cur) ==
    [cur EXCEPT !.screening = op.screening,
                !.verdict   = Or(op.verdict, @),
                !.provider  = Or(op.provider, @),
                !.capped    = Or(op.capped, @)]

(* replace_jd drops everything that was judged against the old content. *)
JdReplaced(op, cur) ==
    [cur EXCEPT !.jd = op.jd, !.screening = None, !.verdict = None,
                !.provider = None, !.capped = FALSE, !.prescreen = None]

VerdictUpdated(op, cur) ==
    [cur EXCEPT !.verdict = op.verdict, !.prescreen = Or(op.reason, @)]

PrescreenUpdated(op, cur) == [cur EXCEPT !.prescreen = op.reason]

StatusUpdated(op, cur) ==
    [cur EXCEPT !.posting = Or(op.posting, @),
                !.status  = Or(op.status, @),
                !.history = IF op.status = None THEN @
                            ELSE Append(@, op.status)]

(* What the operation leaves in place of the record it read under the lock. *)
Applied(op, cur) ==
    CASE IsSave(op)                   -> Saved(op, cur)
      [] op.kind = "screening_result" -> Screened(op, cur)
      [] op.kind = "replace_jd"       -> JdReplaced(op, cur)
      [] op.kind = "verdict"          -> VerdictUpdated(op, cur)
      [] op.kind = "prescreen"        -> PrescreenUpdated(op, cur)
      [] op.kind = "status"           -> StatusUpdated(op, cur)

(* The operation raises instead: JobRecordNotFound or an integrity error   *)
(* when there is no record, FileExistsError, ScreeningStateConflict.       *)
Refused(op, cur) ==
    \/ cur = None /\ ~IsSave(op)
    \/ cur # None /\ op.kind = "create"
    \/ /\ op.kind = "screening_result"
       /\ \/ cur.posting   \notin op.expected.posting
          \/ cur.provider  \notin op.expected.provider
          \/ cur.screening \notin op.expected.screening
          \/ cur.jd        \notin op.expected.jd
=============================================================================
