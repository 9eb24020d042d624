---------------------------- MODULE SemanticEval ----------------------------
(***************************************************************************)
(* The evaluation of the semantic title filter: capture collects the       *)
(* titles a search comes across into a queue; a human labels them in a     *)
(* dataset and seals it; run scores the dataset with the configured model  *)
(* and publishes a report; compare sets two reports against each other.    *)
(* A report may authorise a change of the filter in production.            *)
(*                                                                         *)
(* Cases are numbered in the order of their IDs, the order they are scored *)
(* in.  Digests are what they are taken of.  The exact binomial bounds are *)
(* two tables: how many missed families a number of trials tolerates, and  *)
(* how many gains among the discordant families are significant.           *)
(***************************************************************************)
EXTENDS Naturals, FiniteSets, FiniteSetsExt

CONSTANTS
    N,            \* cases of the dataset, 1 .. N
    FamilyOf,     \* title family of each case
    TitleOf,      \* normalized title of each case
    Holdout,      \* families of the holdout split under the dataset's version
    Tolerated,    \* for n trials: one more than the misses that keep the bound within 1 %
    Significant,  \* for n discordant families: the gains that reach p < 0.05
    Unlabelled,   \* no final label yet
    Keep, Reject, \* backend and ambiguous titles; non-backend titles
    Unsealed,     \* no lock digest
    Nothing,      \* no file
    Labellings,   \* labels the human starts from
    Names,        \* names of report files
    Runners,      \* commands run and compare at work
    MaxLabelEdits,     \* bound: labels set and seals put by the human
    MaxRuns       \* bound: commands started

Case == 1 .. N

ASSUME EvalAssumption ==
    /\ N \in Nat
    /\ MaxLabelEdits \in Nat
    /\ MaxRuns \in Nat
    /\ \A c, d \in Case : TitleOf[c] = TitleOf[d] => FamilyOf[c] = FamilyOf[d]
    /\ {Keep, Reject} \cap {Unlabelled} = {}
    /\ Labellings \subseteq [Case -> {Keep, Reject, Unlabelled}]
    /\ \A n \in 0 .. N : Tolerated[n] <= n /\ Significant[n] >= 1

VARIABLES
    dataset,   \* the dataset's file: labels, seal, whether it claims to be private gold
    seals,     \* auxiliary: every labelling a human has sealed
    reports,   \* the report files
    at,        \* where each command is
    job,       \* what it holds
    edits, runs

evalVars == <<dataset, seals, reports, at, job, edits, runs>>

(* Cases with one normalized title are one case: that of the smallest ID.  *)
Canonical == {c \in Case : \A d \in Case : TitleOf[d] = TitleOf[c] => d >= c}

(* What the lock digest covers: normalized title, family and label; case   *)
(* IDs are not in it.  The split follows from the family.                  *)
LockDigest(labels) == {<<TitleOf[c], FamilyOf[c], labels[c]>> : c \in Canonical}
ASSUME UnsealedAssumption ==
    \A labels \in [Case -> {Keep, Reject, Unlabelled}] : LockDigest(labels) # Unsealed

(* mutation: any lock digest counts, whatever it was taken of *)
LockedByPresence(d) == d.lock # Unsealed

Locked(d) == d.lock = LockDigest(d.labels)

(* load_dataset_payload: final labels only, no two labels for one title,   *)
(* and private gold has to be locked.                                      *)
Loadable(d) ==
    /\ \A c \in Case : d.labels[c] # Unlabelled
    /\ \A c, e \in Case : TitleOf[c] = TitleOf[e] => d.labels[c] = d.labels[e]
    /\ d.gold => Locked(d)

EvalInit ==
    /\ \E labels \in Labellings, gold, sealed \in BOOLEAN :
        /\ dataset = [labels |-> labels, gold |-> gold,
                       lock |-> IF sealed THEN LockDigest(labels) ELSE Unsealed]
        /\ seals = IF sealed THEN {LockDigest(labels)} ELSE {}
    /\ reports = [n \in Names |-> Nothing]
    /\ at = [r \in Runners |-> "idle"]
    /\ job = [r \in Runners |-> Nothing]
    /\ edits = 0
    /\ runs = 0

(***************************************************************************)
(* The human                                                               *)
(***************************************************************************)

(* Sets the label of one case, also against another of its title. *)
Label(c, l) ==
    /\ edits < MaxLabelEdits
    /\ dataset.labels[c] # l
    /\ edits' = edits + 1
    /\ dataset' = [dataset EXCEPT !.labels[c] = l]
    /\ UNCHANGED <<seals, reports, at, job, runs>>

(* Puts the digest of the labels as they are into the dataset. *)
PutSeal ==
    /\ edits < MaxLabelEdits
    /\ ~ Locked(dataset)
    /\ edits' = edits + 1
    /\ dataset' = [dataset EXCEPT !.lock = LockDigest(dataset.labels)]
    /\ seals' = seals \cup {LockDigest(dataset.labels)}
    /\ UNCHANGED <<reports, at, job, runs>>

(***************************************************************************)
(* What a report says, computed from the cases it rejects                  *)
(***************************************************************************)
Members(f) == {c \in Canonical : FamilyOf[c] = f}

Families == {FamilyOf[c] : c \in Canonical}

HasKeep(d, f) == \E c \in Members(f) : d.labels[c] = Keep

MissedKeep(d, rejected, f) == \E c \in Members(f) : d.labels[c] = Keep /\ c \in rejected

AllNonBackend(d, f) == \A c \in Members(f) : d.labels[c] = Reject

CorrectRejection(d, rejected, f) ==
    AllNonBackend(d, f) /\ \A c \in Members(f) : c \in rejected

KeepFamilies(d) == {f \in Families \cap Holdout : HasKeep(d, f)}

MissedFamilies(d, rejected) == {f \in Families \cap Holdout : MissedKeep(d, rejected, f)}

(* keep_family_miss_rate_upper_bound <= 0.01 *)
BoundHolds(d, rejected) ==
    Cardinality(MissedFamilies(d, rejected)) < Tolerated[Cardinality(KeepFamilies(d))]

(* _status_from_components *)
Status(d, rejected) ==
    IF KeepFamilies(d) = {} THEN "insufficient_data"
    ELSE IF BoundHolds(d, rejected) THEN "pass"
    ELSE IF MissedFamilies(d, rejected) # {} THEN "fail"
    ELSE "insufficient_data"

Score(d, rejected, broken) ==
    [kind |-> "score", data |-> d, rejected |-> rejected, of |-> <<>>,
     status |-> Status(d, rejected),
     authorizes |-> Status(d, rejected) = "pass" /\ d.gold /\ Locked(d),
     broken |-> broken]

(* The contract and the case evidence: digests of the dataset, and family, *)
(* split, label and title of every case.                                   *)

SameCases(report, d) == report.data.gold = d.gold /\ report.data.labels = d.labels

(* What the case scores say over the dataset is what the file says. *)
Rebuilt(report, d) == report.status = Status(d, report.rejected)

(* load_eval_report_payload *)
Bound(report, d) ==
    /\ report # Nothing
    /\ report.kind = "score"
    /\ SameCases(report, d)
    /\ Rebuilt(report, d)

Discordant(d, rejected, other) ==
    {f \in Families \cap Holdout :
        CorrectRejection(d, rejected, f) /\ ~ CorrectRejection(d, other, f)}

(* More gains than losses, and too many for chance: the exact tail. *)
Better(gains, losses) == gains > losses /\ gains >= Significant[gains + losses]

(* compare_reports: the candidate, rebuilt from its case scores, has to be *)
(* authorised by this dataset, and to reject significantly more families   *)
(* rightly than the incumbent.                                             *)
Comparison(d, incumbent, candidate) ==
    LET gains  == Cardinality(Discordant(d, candidate.rejected, incumbent.rejected))
        losses == Cardinality(Discordant(d, incumbent.rejected, candidate.rejected))
        better == /\ Score(d, candidate.rejected, FALSE).authorizes
                  /\ Better(gains, losses)
    IN [kind |-> "comparison", data |-> d, rejected |-> candidate.rejected,
        of |-> <<incumbent, candidate>>, status |-> IF better THEN "pass" ELSE "fail",
        authorizes |-> better, broken |-> candidate.broken]

(***************************************************************************)
(* The commands                                                            *)
(***************************************************************************)

(* write_new_json: a report appears under its name unless the name is taken. *)

Publish(n, report) ==
    reports' = IF reports[n] = Nothing THEN [reports EXCEPT ![n] = report] ELSE reports

Finishes(r) ==
    /\ at' = [at EXCEPT ![r] = "idle"]
    /\ job' = [job EXCEPT ![r] = Nothing]

(* semantic_eval_run and semantic_eval_compare read the dataset first. *)
ReadDataset(r, n) ==
    /\ at[r] = "idle"
    /\ runs < MaxRuns
    /\ Loadable(dataset)
    /\ runs' = runs + 1
    /\ \E next \in {"run", "compare"} : at' = [at EXCEPT ![r] = next]
    /\ job' = [job EXCEPT ![r] = [data |-> dataset, name |-> n]]
    /\ UNCHANGED <<dataset, seals, reports, edits>>

(* What becomes of loading the model: it is there, its packages are not, or *)
(* it fails, which _disable remembers in _failure_reason.                  *)
Loads == {"loaded", "missing", "failed"}

(* prepare loads the model and reports no failure; provenance loads it     *)
(* again when it is not there and raises when that fails too.  Otherwise   *)
(* a failure the first attempt left behind stays: the scorer is there, and *)
(* disabled.                                                               *)
DisabledAtFirst ==
    {first = "failed" : first \in {f \in Loads : \E again \in Loads : f = "loaded" \/ again = "loaded"}}

(* What score_title can answer over the canonical cases in their order: the *)
(* model answers up to some case, then fails and disables the scorer; a    *)
(* disabled scorer gives every title the score 0, which is above the       *)
(* threshold, and so rejects none.                                         *)
Answers(failed) ==
    {[rejected |-> {c \in asked : c < k}, failed |-> k <= N] :
        asked \in SUBSET Canonical, k \in IF failed THEN {1} ELSE 1 .. N + 1}

(* evaluate_dataset raises, or scores the cases, closes the scorer and     *)
(* builds the report, which is read back and published.                    *)
Evaluate(r) ==
    /\ at[r] = "run"
    /\ \/ UNCHANGED reports
       \/ \E answer \in UNION {Answers(failed) : failed \in DisabledAtFirst} :
            Publish(job[r].name, Score(job[r].data, answer.rejected, answer.failed))
    /\ Finishes(r)
    /\ UNCHANGED <<dataset, seals, edits, runs>>

(* The two reports are read and, when they are bound to the dataset read   *)
(* before, compared.                                                       *)
Compare(r, m, n) ==
    /\ at[r] = "compare"
    /\ IF Bound(reports[m], job[r].data) /\ Bound(reports[n], job[r].data)
         THEN Publish(job[r].name, Comparison(job[r].data, reports[m], reports[n]))
         ELSE UNCHANGED reports
    /\ Finishes(r)
    /\ UNCHANGED <<dataset, seals, edits, runs>>

EvalStep(r) ==
    \/ \E n \in Names : ReadDataset(r, n)
    \/ Evaluate(r)
    \/ \E m, n \in Names : Compare(r, m, n)

EvalNext ==
    \/ \E c \in Case, l \in {Keep, Reject} : Label(c, l)
    \/ PutSeal
    \/ \E r \in Runners : EvalStep(r)

(***************************************************************************)
(* Properties                                                              *)
(***************************************************************************)
ReportFiles == {reports[n] : n \in Names} \ {Nothing}

(* Whatever authorises a change in production rests on labels a human sealed,
   in a dataset that claims to be private gold, and misses, among the families
   of the holdout split that hold a title to keep, no more than their number
   tolerates; a comparison that authorises sets against each other two reports
   of those very labels: _build_report, load_eval_report_payload and
   compare_reports, with the dataset edited and sealed again between the runs
   and while a command holds what it read. *)
AuthorizedIsSealed ==
    \A f \in ReportFiles : f.authorizes =>
        LET keep   == {c \in Canonical : f.data.labels[c] = Keep /\ FamilyOf[c] \in Holdout}
            trials == {FamilyOf[c] : c \in keep}
            missed == {FamilyOf[c] : c \in keep \cap f.rejected}
        IN f.data.gold /\ LockDigest(f.data.labels) \in seals
           /\ Cardinality(missed) < Tolerated[Cardinality(trials)]
           /\ \A i \in DOMAIN f.of : f.of[i].data.labels = f.data.labels
                                     /\ f.of[i].data.gold

(* A run whose scorer became unavailable does not pass (ARCHITECTURE.md:187,
   "unavailable: the scorer or provenance is unavailable"). *)
UnavailableDoesNotPass ==
    \A f \in ReportFiles : f.kind = "score" /\ f.broken => f.status # "pass"

EvalSpec == EvalInit /\ [][EvalNext]_evalVars
=============================================================================
