-------------------------- MODULE StorageMigration --------------------------
(* StorageMigrator: the legacy folders are hashed, parsed, paired and       *)
(* copied into a stage; the stage is compared with the hashes and, if       *)
(* nothing blocks, renamed to the active root.  The legacy files can be     *)
(* edited at any moment, any reading or staging of one can fail and the run *)
(* can die between any two steps.                                           *)
EXTENDS Integers, FiniteSets

CONSTANTS
    Trees,      \* legacy trees, see LegacyTree
    Nil,
    MaxLegacyEdits, MaxRunFaults     \* bounds

(* A JD has a name, the postings its URLs name and perhaps the frontmatter  *)
(* of a structured snapshot; a screening has a name.  Of a name matter the  *)
(* platform it starts with, the rest of the stem behind that, the ID        *)
(* extracted from it, and whether it starts with a number.                  *)
Jds(t) == DOMAIN t.jd
Screenings(t) == DOMAIN t.screening
LegacyFiles(t) == Jds(t) \cup Screenings(t)
ASSUME TreesAssumption ==
    /\ \A t \in Trees : /\ Jds(t) \cap Screenings(t) = {} /\ t.owned \in {"known", "unknown"}
                       /\ IsFiniteSet(LegacyFiles(t)) /\ Nil \notin LegacyFiles(t)
    /\ MaxLegacyEdits \in Nat /\ MaxRunFaults \in Nat

-----------------------------------------------------------------------------
(* _identity_from_content: the one posting the URLs name, or the one among  *)
(* them whose ID the file name starts with.                                 *)
FromContent(jd) ==
    LET named == {k \in jd.urls : jd.name.number /\ k[2] = jd.name.id} IN
    IF Cardinality(jd.urls) = 1 THEN jd.urls ELSE
    IF Cardinality(named) = 1 THEN named ELSE {}

(* _parse_jd: the identities of a JD; none if it cannot be told, or if name *)
(* and content disagree                                                     *)
Identity(jd) ==
    LET found == IF FromContent(jd) # {} THEN FromContent(jd)
                 ELSE IF jd.name.platform = "private" THEN {<<"private", jd.name.rest>>}
                 ELSE {}
        agrees(k) ==
            /\ jd.name.platform \in {Nil, k[1]}
            /\ jd.name.number \/ jd.name.platform \notin {Nil, "private"}
                  => jd.name.id = k[2]
    IN {k \in found : agrees(k)}
KeyOf(t, f) == CHOOSE k \in Identity(t.jd[f]) : TRUE
Unparsed(t) == {f \in Jds(t) : Identity(t.jd[f]) = {}}

(* _resolve_duplicate_jds: of several JDs of a posting the one structured   *)
(* snapshot is taken                                                        *)
Rivals(t, f) == {g \in Jds(t) \ Unparsed(t) : KeyOf(t, g) = KeyOf(t, f)}
Chosen(t, f) ==
    LET structured == {g \in Rivals(t, f) : t.jd[g].structured} IN
    Cardinality(Rivals(t, f)) = 1 \/ structured = {f}
Resolved(t) == {f \in Jds(t) \ Unparsed(t) : Chosen(t, f)}
Ambiguous(t) ==
    {f \in Jds(t) \ Unparsed(t) : ~\E g \in Resolved(t) : g \in Rivals(t, f)}

(* _pair_screenings: by the name of the JD, else by ID and, if the name has *)
(* one, platform; a screening of a headhunter may stand alone               *)
Matching(t, s) ==
    LET name == t.screening[s]
        same == {f \in Resolved(t) : t.jd[f].name = name} IN
    IF same # {} THEN same
    ELSE {f \in Resolved(t) : /\ KeyOf(t, f)[2] = name.id
                              /\ name.platform \in {Nil, KeyOf(t, f)[1]}}
Alone(t) == {s \in Screenings(t) : Matching(t, s) = {}
                                   /\ t.screening[s].platform = "headhunter"}
Orphans(t) == {s \in Screenings(t) \ Alone(t) : Cardinality(Matching(t, s)) # 1}
Paired(t, f) == {s \in Screenings(t) : Matching(t, s) = {f}}

(* mutation: the last of several screenings is taken                        *)
BlockedButForRivals(t) ==
    \/ Unparsed(t) # {} \/ Ambiguous(t) # {} \/ Orphans(t) # {}
Blocked(t) ==
    \/ Unparsed(t) # {} \/ Ambiguous(t) # {} \/ Orphans(t) # {}
    \/ \E f \in Resolved(t) : Cardinality(Paired(t, f)) > 1

(* The records to stage: a JD with its screening, or a screening alone      *)
(* behind a placeholder.                                                    *)
Pairs(t) ==
    {[jd |-> f, screening |-> IF Paired(t, f) = {} THEN Nil
                              ELSE CHOOSE s \in Paired(t, f) : TRUE] : f \in Resolved(t)}
    \cup {[jd |-> Nil, screening |-> s] : s \in Alone(t)}

-----------------------------------------------------------------------------
VARIABLES
    tree,       \* the legacy tree, which stays
    edition,    \* edition[f]: the edit that wrote it last
    staged,     \* the stage root: the records in it and its report, or Nil
    active,     \* the active root, or Nil
    report,     \* the file at report_path
    run,        \* the run
    accidents       \* edits and faults (failed reads, deaths) so far

migrationVars == <<tree, edition, staged, active, report, run, accidents>>

Stopped == [at |-> "idle", hash |-> Nil, read |-> Nil, dry |-> TRUE,
            ready |-> FALSE, todo |-> {}]
EmptyStage == [records |-> {}, manifest |-> Nil, report |-> Nil]

MigrationInit ==
    /\ tree \in Trees
    /\ edition = [f \in LegacyFiles(tree) |-> 0]
    /\ staged = Nil
    /\ active = Nil
    /\ report = Nil
    /\ run = Stopped
    /\ accidents = [edits |-> 0, faults |-> 0]

(* _reset_stage and inventory                                               *)
Reset ==
    /\ run.at = "idle"
    /\ \E dry \in BOOLEAN :
        run' = [Stopped EXCEPT !.at = "hash", !.dry = dry, !.todo = LegacyFiles(tree),
                   !.hash = [f \in LegacyFiles(tree) |-> Nil],
                   !.read = [f \in Jds(tree) |-> Nil]]
    /\ staged' = EmptyStage
    /\ UNCHANGED <<tree, edition, active, report, accidents>>

(* a file that cannot be read, or a record that cannot be staged            *)
CannotRead ==
    /\ accidents.faults < MaxRunFaults
    /\ accidents' = [accidents EXCEPT !.faults = @ + 1]
Gets(text, found) ==
    \/ text = found /\ UNCHANGED accidents
    \/ text = Nil /\ CannotRead

(* every file is read once for its hash and, a JD, once more to be parsed   *)
Hash ==
    /\ run.at = "hash"
    /\ IF run.todo = {}
       THEN run' = [run EXCEPT !.at = "parse", !.todo = Jds(tree)] /\ UNCHANGED accidents
       ELSE LET f == CHOOSE g \in run.todo : TRUE IN
            \E text \in {Nil, edition[f]} :
               /\ Gets(text, edition[f])
               /\ run' = [run EXCEPT !.hash[f] = text, !.todo = @ \ {f}]
    /\ UNCHANGED <<tree, edition, staged, active, report>>
Unread == \/ \E f \in LegacyFiles(tree) : run.hash[f] = Nil
          \/ \E f \in Jds(tree) : run.read[f] = Nil
Parse ==
    /\ run.at = "parse"
    /\ IF run.todo # {}
       THEN LET f == CHOOSE g \in run.todo : TRUE IN
            \E text \in {Nil, edition[f]} :
               /\ Gets(text, edition[f])
               /\ run' = [run EXCEPT !.read[f] = text, !.todo = @ \ {f}]
       ELSE /\ run' = IF Blocked(tree) \/ Unread THEN [run EXCEPT !.at = "report"]
                      ELSE [run EXCEPT !.at = "create", !.todo = Pairs(tree)]
            /\ UNCHANGED accidents
    /\ UNCHANGED <<tree, edition, staged, active, report>>

(* A record is created from the text that was parsed, its screening is read *)
(* now.  One of the two that fails leaves a record without its text, which  *)
(* no hash matches.                                                         *)
Create ==
    /\ run.at = "create"
    /\ IF run.todo # {}
       THEN LET p == CHOOSE q \in run.todo : TRUE
                jdText == IF p.jd = Nil THEN Nil ELSE run.read[p.jd]
                screeningText == IF p.screening = Nil THEN Nil ELSE edition[p.screening] IN
            /\ \E jd \in {jdText, Nil}, screening \in {screeningText, Nil} :
                  /\ staged' = [staged EXCEPT !.records = @ \cup
                        {[jd |-> p.jd, screening |-> p.screening,
                          jdText |-> jd, screeningText |-> screening]}]
                  /\ \/ jd = jdText /\ Gets(screening, screeningText)
                     \/ jd = Nil /\ screening = Nil /\ CannotRead
            /\ run' = [run EXCEPT !.todo = @ \ {p}]
       ELSE run' = [run EXCEPT !.at = "validate"] /\ UNCHANGED <<staged, accidents>>
    /\ UNCHANGED <<tree, edition, active, report>>

(* _stage_owned_files refuses a runtime file nobody owns;                   *)
(* _validate_staged_hashes compares what was staged with the hashes         *)
Validate ==
    /\ run.at = "validate"
    /\ run' = [run EXCEPT !.at = "report",
          !.ready = tree.owned = "known" /\ \A r \in staged.records :
              /\ r.jd # Nil => r.jdText = run.hash[r.jd]
              /\ r.screening # Nil => r.screeningText = run.hash[r.screening]]
    /\ UNCHANGED <<tree, edition, staged, active, report, accidents>>

Reported(activated) == [ready |-> run.ready, activated |-> activated, hash |-> run.hash]

(* _write_report: at the path asked for, then in the stage                  *)
Report ==
    /\ run.at = "report"
    /\ report' = Reported(FALSE)
    /\ run' = [run EXCEPT !.at = "stage report"]
    /\ UNCHANGED <<tree, edition, staged, active, accidents>>
StageReport ==
    /\ run.at = "stage report"
    /\ staged' = [staged EXCEPT !.report = Reported(FALSE)]
    /\ run' = IF run.dry \/ ~run.ready THEN Stopped ELSE [run EXCEPT !.at = "activate"]
    /\ UNCHANGED <<tree, edition, active, report, accidents>>

(* activate: refused, and reported so, if there is an active root           *)
Refuse ==
    /\ run.at = "activate"
    /\ active # Nil
    /\ report' = [Reported(FALSE) EXCEPT !.ready = FALSE]
    /\ staged' = [staged EXCEPT !.report = report']
    /\ run' = Stopped
    /\ UNCHANGED <<tree, edition, active, accidents>>
Manifest ==
    /\ run.at = "activate"
    /\ active = Nil
    /\ staged' = [staged EXCEPT !.manifest = Cardinality(staged.records)]
    /\ run' = [run EXCEPT !.at = "seal"]
    /\ UNCHANGED <<tree, edition, active, report, accidents>>
(* the store carries its own report before it becomes the active one        *)
Seal ==
    /\ run.at = "seal"
    /\ staged' = [staged EXCEPT !.report = Reported(TRUE)]
    /\ run' = [run EXCEPT !.at = "rename"]
    /\ UNCHANGED <<tree, edition, active, report, accidents>>
(* os.replace fails on a root that exists by now, unless it is empty        *)
Rename ==
    /\ run.at = "rename"
    /\ \/ /\ active \in {Nil, EmptyStage}
          /\ active' = staged /\ staged' = Nil /\ run' = [run EXCEPT !.at = "done"]
       \/ active # Nil /\ run' = Stopped /\ UNCHANGED <<active, staged>>
    /\ UNCHANGED <<tree, edition, report, accidents>>
Done ==
    /\ run.at = "done"
    /\ report' = Reported(TRUE)
    /\ run' = Stopped
    /\ UNCHANGED <<tree, edition, staged, active, accidents>>

Preflight == Reset \/ Hash \/ Parse \/ Create \/ Validate \/ Report \/ StageReport
Activate == Refuse \/ Manifest \/ Seal \/ Rename \/ Done

(* the user edits a legacy file, or the workspace gets a root from          *)
(* elsewhere, with or without files in it                                   *)
Edit ==
    /\ accidents.edits < MaxLegacyEdits
    /\ accidents' = [accidents EXCEPT !.edits = @ + 1]
    /\ \/ \E f \in LegacyFiles(tree) : edition' = [edition EXCEPT ![f] = accidents'.edits]
                                 /\ UNCHANGED active
       \/ active = Nil /\ active' = EmptyStage /\ UNCHANGED edition
    /\ UNCHANGED <<tree, staged, report, run>>
Death ==
    /\ run.at # "idle"
    /\ accidents.faults < MaxRunFaults
    /\ accidents' = [accidents EXCEPT !.faults = @ + 1]
    /\ run' = Stopped
    /\ UNCHANGED <<tree, edition, staged, active, report>>

MigrationNext == Preflight \/ Activate \/ Edit \/ Death
MigrationSpec == MigrationInit /\ [][MigrationNext]_migrationVars

-----------------------------------------------------------------------------
(* A migrated root, from the moment it is there, says of itself that it was *)
(* activated, and nothing of the legacy is missing from it: every JD is its *)
(* record, or gave way to the one structured snapshot of its posting, every *)
(* screening is on one record, both with the text the report hashed, for   *)
(* none of which the reading failed                                         *)
(* (StorageMigrator.preflight and activate).                                *)
ActivatedIsComplete ==
    active \notin {Nil, EmptyStage} =>
        LET hash == active.report.hash IN
        /\ active.report.activated /\ active.report.ready
        /\ active.manifest = Cardinality(active.records)
        /\ \A f \in LegacyFiles(tree) : hash[f] # Nil
        /\ \A f \in Jds(tree) :
              \/ \E r \in active.records : r.jd = f /\ r.jdText = hash[f]
              \/ \E r \in active.records : /\ r.jd \in Rivals(tree, f)
                                           /\ tree.jd[r.jd].structured
                                           /\ ~tree.jd[f].structured
        /\ \A s \in Screenings(tree) :
              \E r \in active.records : r.screening = s /\ r.screeningText = hash[s]
        /\ \A q, r \in active.records : q.jd = r.jd /\ q.screening = r.screening => q = r
=============================================================================
