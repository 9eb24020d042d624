--------------------------- MODULE ScreeningRuns ---------------------------
(* Screenings of one record: screening.run_screening, called by automation, *)
(* `screening run`, the `queue ... --rescreen` commands and the journaled   *)
(* snapshot rescreen, while the user edits and refreshes the record.  What  *)
(* a repository call does to the record is RecordModel's (RecordStore       *)
(* implements it in one step); nothing is locked between two of them.       *)
EXTENDS Integers, Sequences

CONSTANTS
    None, Jd,
    Caller,      \* processes that screen and rescreen
    Runner,      \* the process of the snapshot rescreen
    Cli,         \* claude and codex as resolve_commands finds them, in order
    Local,       \* the local provider
    Selected,    \* --provider of the snapshot rescreen
    MaxCalls, MaxEdits, MaxCrashes   \* bounds

Strong == {Cli[i] : i \in 1..Len(Cli)}
Provider == Strong \cup {Local, "fallback"}
Verdict == {"recommended", "hold", "not recommended"}
Status == {"pending", "applied"}
Posting == {"active", "closed"}
Ended == {"returned", "raised", "conflict"}      \* how a call of run_screening ends
Terminal == {"rescreened", "still_fallback", "failed", "failed_after_publish",
             "skipped_drift"}                    \* outcomes in the result journal

(* A screening document: who wrote it, what its verdict line says, and the  *)
(* JD it judges.                                                            *)
Document == [by: Provider, verdict: Verdict, jd: Jd]

INSTANCE RecordModel WITH Screening <- Document, Reason <- {}

ASSUME ScreeningAssumption ==
    /\ Runner \notin Caller
    /\ Local \notin Strong /\ "fallback" \notin Strong \cup {Local}
    /\ Cli \in Seq(Strong)
    /\ Selected \in Strong
    /\ None \notin Jd \cup Document \cup Provider \cup Verdict \cup BOOLEAN
    /\ None \notin Ended \cup {"open", "started"} \cup Terminal
    /\ None \notin Stored
    /\ MaxCalls \in Nat /\ MaxEdits \in Nat /\ MaxCrashes \in Nat

VARIABLES
    record,      \* the record in the repository
    call,        \* what each process is doing
    snapshot,    \* the entry of the fallback snapshot file, or None
    journal,     \* its item in the result journal: None without a journal,
                 \* "open" in one that does not list it yet
    left,        \* calls, edits and crashes that may still happen
    kept         \* history: the stored screening was kept by a save of the JD

core == <<record, call, snapshot, journal, left>>
vars == <<record, call, snapshot, journal, left, kept>>

Process == Caller \cup {Runner}

Idle == [at |-> "idle", strong |-> FALSE, classify |-> FALSE, jd |-> None,
         by |-> None, retried |-> FALSE, doc |-> None, capped |-> None,
         told |-> None, how |-> None]

(* a collected posting, or one whose first screening failed                 *)
Unscreened(jd) == [jd |-> jd, screening |-> None, verdict |-> None,
                   provider |-> None, capped |-> FALSE, prescreen |-> None,
                   status |-> "pending", posting |-> "active", history |-> <<>>]
FallbackOf(jd) == [by |-> "fallback", verdict |-> "hold", jd |-> jd]
Unassessed(jd) == [Unscreened(jd) EXCEPT !.screening = FallbackOf(jd),
                     !.verdict = "hold", !.provider = "fallback"]

Init ==
    /\ \E jd \in Jd : record \in {Unscreened(jd), Unassessed(jd)}
    /\ call = [p \in Process |-> Idle]
    /\ snapshot = None
    /\ journal = None
    /\ left = [calls |-> MaxCalls, edits |-> MaxEdits, crashes |-> MaxCrashes]
    /\ kept = FALSE

At(p, stages) == call[p].at \in stages
Becomes(p, state) == call' = [call EXCEPT ![p] = state]
(* run_screening or what follows it returns ("returned"), or raises.        *)
Ends(p, how) ==
    Becomes(p, IF p = Runner THEN [call[p] EXCEPT !.at = "report", !.how = how]
                             ELSE Idle)

IsFallback(doc) == doc # None /\ doc.by = "fallback"
IsAssessment(doc) == doc # None /\ doc.by # "fallback"

-----------------------------------------------------------------------------
(* CLIProvider.run: each provider in turn gives an error, an output that    *)
(* breaks the contract, or an assessment.                                   *)
Tried(selected) == IF selected = None THEN Append(Cli, Local) ELSE <<selected>>

(* the first assessment, or else the last output that broke the contract    *)
Answer(tried, said, answer) ==
    \/ /\ answer.gave = "ok"
       /\ \E i \in 1..Len(tried) :
             /\ answer.by = tried[i] /\ said[tried[i]] = "ok"
             /\ \A j \in 1..i - 1 : said[tried[j]] # "ok"
    \/ /\ answer.gave = "rejected"
       /\ \A i \in 1..Len(tried) : said[tried[i]] # "ok"
       /\ \E i \in 1..Len(tried) :
             /\ answer.by = tried[i] /\ said[tried[i]] = "rejected"
             /\ \A j \in i + 1..Len(tried) : said[tried[j]] = "error"
    \/ /\ answer.gave = "error" /\ answer.by = None
       /\ \A i \in 1..Len(tried) : said[tried[i]] = "error"

Said == {"ok", "rejected", "error"}
AnswersOf(tried) ==
    {answer \in [by: Optional(Strong \cup {Local}), gave: Said] :
        \E said \in [Strong \cup {Local} -> Said] : Answer(tried, said, answer)}
AnyAnswers == AnswersOf(Tried(None))
SelectedAnswers == AnswersOf(Tried(Selected))
Answers(p) == IF p = Runner THEN SelectedAnswers ELSE AnyAnswers

(* _apply_conservative_verdict_guard.  facts: two required matches are      *)
(* missing, the rejection rests on a decisive one, the JD is ambiguous.     *)
Facts == [missing: BOOLEAN, supported: BOOLEAN, ambiguous: BOOLEAN]
Held(verdict, by, facts) ==
    \/ verdict = "recommended" /\ (facts.missing \/ by = Local)
    \/ verdict = "not recommended" /\ ~facts.supported
    \/ facts.ambiguous /\ ~facts.supported
(* mutation: only missing requirements hold a verdict back                  *)
GuardedMissing(verdict, by, facts) ==
    IF verdict = "recommended" /\ facts.missing THEN "hold" ELSE verdict
Guarded(verdict, by, facts) ==
    IF Held(verdict, by, facts) THEN "hold" ELSE verdict
Judgements(by) == {[verdict |-> Guarded(verdict, by, facts),
                    capped |-> verdict = "recommended" /\ by = Local] :
                   verdict \in Verdict, facts \in Facts}

-----------------------------------------------------------------------------
(* A call of run_screening.                                                 *)

Start(c, strong, classify) ==
    /\ At(c, {"idle"})
    /\ left.calls > 0
    /\ left' = [left EXCEPT !.calls = @ - 1]
    /\ Becomes(c, [Idle EXCEPT !.at = "ask", !.strong = strong,
                               !.classify = classify, !.jd = record.jd])
    /\ UNCHANGED <<record, snapshot, journal>>

(* without an assessment the call goes on with the fallback document, which *)
(* a caller that insists on a strong provider withholds                     *)
GivesUp(p) ==
    IF call[p].strong THEN Ends(p, "returned")
    ELSE Becomes(p, [call[p] EXCEPT !.at = "stored",
                       !.doc = FallbackOf(call[p].jd)])

(* one provider run; a broken contract is retried once, and a quality retry *)
(* that brings no assessment raises the quality error                       *)
Ask(p) ==
    /\ At(p, {"ask", "ask contract", "ask quality"})
    /\ \E answer \in Answers(p) :
        \/ /\ answer.gave = "ok"
           /\ Becomes(p, [call[p] EXCEPT !.at = "gate", !.by = answer.by])
        \/ /\ answer.gave = "rejected" /\ At(p, {"ask"})
           /\ Becomes(p, [call[p] EXCEPT !.at = "ask contract"])
        \/ /\ answer.gave = "error" /\ At(p, {"ask"})
           /\ GivesUp(p)
        \/ /\ answer.gave # "ok" /\ At(p, {"ask contract"})
           /\ GivesUp(p)
        \/ /\ answer.gave # "ok" /\ At(p, {"ask quality"})
           /\ Ends(p, "raised")
    /\ UNCHANGED <<record, snapshot, journal, left>>

(* the assessment of a weak provider is withheld from a strong caller       *)
Withheld(p) == call[p].strong /\ call[p].by \notin Strong

(* process_assessment passes, and the guard has the last word; or it finds  *)
(* quality issues, which are retried once; or a table cannot be parsed      *)
Gate(p) ==
    /\ At(p, {"gate"})
    /\ \/ /\ ~Withheld(p)
          /\ \E judged \in Judgements(call[p].by) :
               Becomes(p, [call[p] EXCEPT !.at = "publish",
                  !.doc = [by |-> call[p].by, verdict |-> judged.verdict,
                           jd |-> call[p].jd],
                  !.capped = judged.capped])
       \/ /\ Withheld(p)
          /\ Ends(p, "returned")
       \/ /\ ~call[p].retried
          /\ Becomes(p, [call[p] EXCEPT !.at = "ask quality", !.retried = TRUE])
       \/ Ends(p, "raised")
    /\ UNCHANGED <<record, snapshot, journal, left>>

(* _has_stored_assessment: a fallback document does not replace an          *)
(* assessment that is there now                                             *)
CheckStored(p) ==
    /\ At(p, {"stored"})
    /\ IF IsAssessment(record.screening)
       THEN Ends(p, "returned")
       ELSE Becomes(p, [call[p] EXCEPT !.at = "publish"])
    /\ UNCHANGED <<record, snapshot, journal, left>>

(* mutation: the JD may have changed                                        *)
ExpectedAnyJd(p) ==
    [jd        |-> Jd,
     posting   |-> IF p = Runner THEN {"active"} ELSE Posting,
     provider  |-> IF p = Runner THEN {snapshot.provider} ELSE Optional(Provider),
     screening |-> IF p = Runner THEN {snapshot.screening} ELSE Optional(Document)]

(* mutation: the snapshot rescreen states no precondition of its own        *)
ExpectedJdOnly(p) ==
    [jd |-> {call[p].jd}, posting |-> Posting,
     provider |-> Optional(Provider), screening |-> Optional(Document)]

(* what a publication finds must be the JD it judged and, for the snapshot  *)
(* rescreen, the active record and the document of the snapshot             *)
Expected(p) ==
    [jd        |-> {call[p].jd},
     posting   |-> IF p = Runner THEN {"active"} ELSE Posting,
     provider  |-> IF p = Runner THEN {snapshot.provider} ELSE Optional(Provider),
     screening |-> IF p = Runner THEN {snapshot.screening} ELSE Optional(Document)]

Publication(p) ==
    [kind |-> "screening_result", screening |-> call[p].doc,
     verdict |-> call[p].doc.verdict, provider |-> call[p].doc.by,
     capped |-> call[p].capped, expected |-> Expected(p)]

(* update_screening_result, or ScreeningStateConflict                       *)
Publish(p) ==
    /\ At(p, {"publish"})
    /\ IF Refused(Publication(p), record)
       THEN Ends(p, "conflict") /\ UNCHANGED record
       ELSE /\ record' = Screened(Publication(p), record)
            /\ Becomes(p, [call[p] EXCEPT !.at = "confirm"])
    /\ UNCHANGED <<snapshot, journal, left>>

(* the published document is looked up again, and may be gone already       *)
Confirm(p) ==
    /\ At(p, {"confirm"})
    /\ IF record.screening = None THEN Ends(p, "raised")
       ELSE IF call[p].classify
            THEN Becomes(p, [call[p] EXCEPT !.at = "classify"])
            ELSE Ends(p, "returned")
    /\ UNCHANGED <<record, snapshot, journal, left>>

(* pipeline.classify_record: the verdict line of the stored document, read  *)
(* here and written to the record in the next step                          *)
Classify(p) ==
    /\ At(p, {"classify"})
    /\ IF record.status # "pending" \/ record.screening = None
       THEN Ends(p, "returned")
       ELSE Becomes(p, [call[p] EXCEPT !.at = "verdict",
                                       !.told = record.screening.verdict])
    /\ UNCHANGED <<record, snapshot, journal, left>>

WriteVerdict(p) ==
    /\ At(p, {"verdict"})
    /\ record' = VerdictUpdated([verdict |-> call[p].told, reason |-> None],
                                record)
    /\ Ends(p, "returned")
    /\ UNCHANGED <<snapshot, journal, left>>

Screen(p) == Ask(p) \/ Gate(p) \/ CheckStored(p) \/ Publish(p) \/ Confirm(p)
             \/ Classify(p) \/ WriteVerdict(p)

-----------------------------------------------------------------------------
(* The snapshot rescreen.                                                   *)

Matches == /\ record.posting = snapshot.posting
           /\ record.provider = snapshot.provider
           /\ record.screening = snapshot.screening
           /\ IsFallback(record.screening)

(* _build_fallback_snapshot lists active records with a fallback document   *)
TakeSnapshot ==
    /\ snapshot = None
    /\ record.posting = "active" /\ IsFallback(record.screening)
    /\ snapshot' = [posting |-> "active", provider |-> record.provider,
                    screening |-> record.screening]
    /\ UNCHANGED <<record, call, journal, left>>

(* a new journal wants the inventory of the snapshot; with one there        *)
(* already, drift is allowed and what was interrupted has failed            *)

BeginRunner ==
    /\ At(Runner, {"idle"})
    /\ snapshot # None
    /\ left.calls > 0
    /\ left' = [left EXCEPT !.calls = @ - 1]
    /\ journal = None => Matches
    /\ journal' = CASE journal = None      -> "open"
                    [] journal = "started" -> "failed"
                    [] OTHER               -> journal
    /\ Becomes(Runner, IF journal' = "open" THEN [Idle EXCEPT !.at = "eligible"]
                                            ELSE Idle)
    /\ UNCHANGED <<record, snapshot>>

Eligible ==
    /\ At(Runner, {"eligible"})
    /\ IF Matches
       THEN /\ journal' = "started"
            /\ Becomes(Runner, [Idle EXCEPT !.at = "load", !.strong = TRUE,
                                            !.classify = TRUE])
       ELSE /\ journal' = "skipped_drift"
            /\ Becomes(Runner, Idle)
    /\ UNCHANGED <<record, snapshot, left>>

(* _rescreen_one reads the record it is going to screen; its company data   *)
(* may be invalid, or the JD may list nothing that can be assessed          *)
Load ==
    /\ At(Runner, {"load"})
    /\ \/ Becomes(Runner, [call[Runner] EXCEPT !.at = "ask", !.jd = record.jd])
       \/ Ends(Runner, "raised")
    /\ UNCHANGED <<record, snapshot, journal, left>>

Outcome ==
    CASE call[Runner].how = "conflict" -> "skipped_drift"
      [] call[Runner].how = "raised"   ->
           IF IsFallback(record.screening) THEN "failed"
                                           ELSE "failed_after_publish"
      [] call[Runner].how = "returned" ->
           IF IsFallback(record.screening) THEN "still_fallback"
                                           ELSE "rescreened"

Report ==
    /\ At(Runner, {"report"})
    /\ journal' = Outcome
    /\ Becomes(Runner, Idle)
    /\ UNCHANGED <<record, snapshot, left>>

Run == BeginRunner \/ Eligible \/ Load \/ Report

-----------------------------------------------------------------------------
(* A process dies; the journal and the record stay.                         *)
Crash(p) ==
    /\ ~At(p, {"idle"})
    /\ left.crashes > 0
    /\ left' = [left EXCEPT !.crashes = @ - 1]
    /\ Becomes(p, Idle)
    /\ UNCHANGED <<record, snapshot, journal>>

(* `record refresh`, `record set-status` and the posting checks             *)
Edit ==
    /\ left.edits > 0
    /\ left' = [left EXCEPT !.edits = @ - 1]
    /\ \/ \E jd \in Jd : record' = JdReplaced([jd |-> jd], record)
       \/ \E status \in Optional(Status), posting \in Optional(Posting) :
            /\ status \notin {None, record.status}
               \/ posting \notin {None, record.posting}
            /\ record' = StatusUpdated([status |-> status, posting |-> posting],
                                       record)
    /\ UNCHANGED <<call, snapshot, journal>>

(* Automation and `screening run` screen only; the queue commands classify  *)
(* what they rescreened, most of them insisting on a strong provider.       *)
Call(c) == Start(c, FALSE, FALSE) \/ \E strong \in BOOLEAN : Start(c, strong, TRUE)

(* An extraction that found no record when it started, or one whose JD      *)
(* listed nothing to assess, saves what it extracted: the JD is refreshed   *)
(* and the screening stays.                                                 *)
SavedJd(jd) == Saved([kind |-> "save", record |-> [record EXCEPT !.jd = jd]],
                     record)
Save ==
    /\ left.edits > 0
    /\ left' = [left EXCEPT !.edits = @ - 1]
    /\ \E jd \in Jd : record' = SavedJd(jd)
    /\ UNCHANGED <<call, snapshot, journal>>

Step ==
    \/ \E c \in Caller : Call(c)
    \/ \E p \in Process : Screen(p) \/ Crash(p)
    \/ TakeSnapshot
    \/ Run
    \/ Edit

(* The mark goes with the screening it is about.                            *)
MarkStays == kept' = (kept /\ record'.screening = record.screening)
Next ==
    \/ Step /\ MarkStays
    \/ Save /\ kept' = (record.screening # None)

Spec == Init /\ [][Next]_vars

(* A process that lives goes on: every provider run has a timeout.          *)
FairSpec == Spec /\ \A c \in Caller : WF_core(Screen(c))
                 /\ WF_core(Screen(Runner) \/ Eligible \/ Load \/ Report)
-----------------------------------------------------------------------------
Working == {"ask", "ask contract", "ask quality", "gate", "stored", "publish",
            "confirm", "classify", "verdict"}

CallState ==
    [at: Working \cup {"idle", "eligible", "load", "report"},
     strong: BOOLEAN, classify: BOOLEAN, jd: Optional(Jd),
     by: Optional(Strong \cup {Local}), retried: BOOLEAN,
     doc: Optional(Document), capped: Optional(BOOLEAN),
     told: Optional(Verdict), how: Optional(Ended)]

TypeOK ==
    /\ record \in Loadable
    /\ call \in [Process -> CallState]
    /\ snapshot \in Optional([posting: Posting, provider: Optional(Provider),
                              screening: Document])
    /\ journal \in {None, "open", "started"} \cup Terminal
    /\ left \in [calls: Nat, edits: Nat, crashes: Nat]
    /\ kept \in BOOLEAN

(* The stored screening judges the stored JD: a refresh during a screening  *)
(* neither inherits the result nor keeps an older one, and no screening is  *)
(* stored for a JD that is gone.  Only an extraction that saves over a      *)
(* screened record leaves the old screening beside another JD.              *)
JudgesStoredJd ==
    record.screening # None /\ ~kept => record.screening.jd = record.jd

(* No local model gets a recommendation into a stored document, whichever   *)
(* of the calls and retries it answered.                                    *)
LocalNeverRecommends ==
    record.screening # None /\ record.screening.by = Local =>
        record.screening.verdict # "recommended"

(* A record capped by a local provider stays in `queue capped` until a      *)
(* provider assesses it again or its screening is dropped; calls that only  *)
(* fail do not take it out.                                                 *)
CapIsKept ==
    [][record.capped /\ ~record'.capped =>
         record'.screening = None \/ IsAssessment(record'.screening)]_vars

(* A rescreen that insists on a strong provider puts nothing in place of    *)
(* the stored document but the assessment of one.                           *)
StrongRescreenIsStrong ==
    [][\A p \in Process :
         call[p].strong /\ At(p, {"publish"}) /\ call'[p].at = "confirm" =>
             record'.screening.by \in Strong]_vars

(* The snapshot rescreen replaces the very fallback document it listed, on  *)
(* an active record, by an assessment of the selected provider, whatever    *)
(* others published since.                                                  *)
SnapshotReplacesItsFallback ==
    [][At(Runner, {"publish"}) /\ call'[Runner].at = "confirm" =>
         /\ record.posting = "active"
         /\ IsFallback(record.screening)
         /\ record.screening = snapshot.screening
         /\ record'.screening.by = Selected]_vars

(* Providers are asked for an entry only while the journal says so ...      *)
AskedIsJournaled == At(Runner, Working) => journal = "started"

(* ... and an entry that was started is never taken up again, also when the *)
(* run that started it died.                                                *)
StartedIsTakenOnce ==
    [][/\ journal = "started" => journal' \in {"started"} \cup Terminal
       /\ journal \in Terminal => journal' = journal]_vars

(* "A fallback stub would destroy an assessment no provider can reproduce": *)
(* an assessment is never replaced by a fallback document.                  *)
AssessmentSurvives ==
    [][IsAssessment(record.screening) => ~IsFallback(record'.screening)]_vars

(* "verdict-metadata-mismatch" of screening_lint.lint_record: the verdict   *)
(* in the metadata of an open, pending record is that of its document.      *)
VerdictIsTheDocuments ==
    /\ record.screening # None /\ record.verdict # None
    /\ record.posting # "closed" /\ record.status = "pending"
    => record.verdict = record.screening.verdict
=============================================================================
