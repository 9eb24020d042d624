---------------------------- MODULE CompanyInfo ----------------------------
(* CompanyInfoService and CompanyEnrichmentService: the information file of *)
(* one company, enriched by runs, replaced section by section by `company   *)
(* apply`, rewritten by `company validate --fix`, which takes no lock, and  *)
(* edited by the user.                                                      *)
EXTENDS Integers, FiniteSets

CONSTANTS
    Fact,           \* facts, each <<section, name>>
    Required,       \* the facts completeness counts
    Rendered,       \* the facts enrich writes in a form that is read back
    RiskFlags,      \* the section validate --fix adds
    Documents,      \* the files the user writes
    Submitted,      \* the documents given to company apply
    Writer,         \* processes
    NoFile,
    MaxFileEdits, MaxWriterDeaths, MaxFileCalls      \* bounds

ASSUME CompanyAssumption ==
    /\ Required \subseteq Fact /\ Rendered \subseteq Fact
    /\ Documents \subseteq [above : SUBSET Fact, behind : SUBSET Fact, titled : BOOLEAN]
    /\ Submitted \subseteq [facts : SUBSET Fact, titled : BOOLEAN, footed : BOOLEAN]
    /\ RiskFlags \notin Fact /\ \A f \in Fact : f[1] # RiskFlags[1]
    /\ NoFile \notin Writer
    /\ MaxFileEdits \in Nat /\ MaxWriterDeaths \in Nat /\ MaxFileCalls \in Nat

SectionOf(f) == f[1]

VARIABLES
    file,       \* the file: its facts above the first rule line and behind
                \* it, and whether it has a title; or NoFile
    lock,       \* the writer that holds .<stem>.lock
    hidden,     \* hidden[w]: .<stem>.*.tmp of a writer, or NoFile
    writer,     \* writer[w]: the call being executed
    used        \* calls, edits and deaths so far

companyVars == <<file, lock, hidden, writer, used>>

(* wanted: the candidate; expected: the digest to compare, NoFile for "do not *)
(* compare"; footed: the candidate ends with a rule line and its sources;   *)
(* enriches: it was built from the file inspected; disturbed: the file was  *)
(* written outside the lock since it was read                               *)
Quiet == [at |-> "idle", wanted |-> {}, titled |-> TRUE, footed |-> TRUE, expected |-> NoFile,
          seen |-> NoFile, enriches |-> FALSE, disturbed |-> FALSE]

CompanyInit ==
    /\ file = NoFile
    /\ lock = NoFile
    /\ hidden = [w \in Writer |-> NoFile]
    /\ writer = [w \in Writer |-> Quiet]
    /\ used = [calls |-> 0, edits |-> 0, deaths |-> 0]

HasSection(facts, f) == \E g \in facts : SectionOf(g) = SectionOf(f)

(* parse_company_file: of two sections of one name the first is read        *)
Parsed ==
    IF file = NoFile THEN {}
    ELSE file.above \cup {f \in file.behind : ~HasSection(file.above, f)}

(* inspect, with validate_company's completeness threshold of 70 %          *)
Status ==
    IF file = NoFile THEN "missing"
    ELSE IF ~file.titled THEN "invalid"
    ELSE IF 100 * Cardinality(Parsed \cap Required) >= 70 * Cardinality(Required)
    THEN "ready" ELSE "incomplete"

At(w, local) == writer' = [writer EXCEPT ![w] = local]
Call == used.calls < MaxFileCalls /\ used' = [used EXCEPT !.calls = @ + 1]

(* enrich: a ready file is left alone and an invalid one is an error; else  *)
(* the facts fetched fill what the file does not have, and of both the      *)
(* candidate holds what _render_company_markdown can write                  *)
Enrich(w) ==
    /\ writer[w].at = "idle"
    /\ Call
    /\ Status \in {"missing", "incomplete"}
    /\ \E fetched \in SUBSET Fact :
        At(w, [Quiet EXCEPT !.at = "lock", !.expected = file, !.enriches = TRUE,
                  !.wanted = Rendered \cap (fetched \cup Parsed)])
    /\ UNCHANGED <<file, lock, hidden>>
(* company apply: a document, perhaps without a title or a rule line, with  *)
(* or without the digest of the file as it is                               *)
CompanyApply(w) ==
    /\ writer[w].at = "idle"
    /\ Call
    /\ \E candidate \in Submitted, expected \in {NoFile, file} :
        At(w, [Quiet EXCEPT !.at = "lock", !.expected = expected, !.wanted = candidate.facts,
                            !.titled = candidate.titled, !.footed = candidate.footed])
    /\ UNCHANGED <<file, lock, hidden>>

(* apply_candidate: the writer lock, or a timeout; stages of writers that   *)
(* died are removed under it                                                *)
Lock(w) ==
    /\ writer[w].at = "lock"
    /\ IF lock = NoFile
       THEN /\ lock' = w
            /\ hidden' = [v \in Writer |-> NoFile]
            /\ At(w, [writer[w] EXCEPT !.at = "read"])
       ELSE /\ At(w, Quiet)
            /\ UNCHANGED <<lock, hidden>>
    /\ UNCHANGED <<file, used>>
Unlock(w) == lock' = IF lock = w THEN NoFile ELSE lock

(* mutation: the digest is not compared                                     *)
ReadAnyDigest(w) ==
    /\ writer[w].at = "read"
    /\ At(w, [writer[w] EXCEPT !.at = "stage", !.seen = file])
    /\ UNCHANGED <<file, lock, hidden, used>>
(* the file is read and compared under the lock                             *)
Read(w) ==
    /\ writer[w].at = "read"
    /\ IF writer[w].expected \notin {NoFile, file}
       THEN Unlock(w) /\ At(w, Quiet)
       ELSE /\ At(w, [writer[w] EXCEPT !.at = "stage", !.seen = file])
            /\ UNCHANGED lock
    /\ UNCHANGED <<file, hidden, used>>

(* _merge_company_markdown: each section of the candidate replaces the      *)
(* first section of that name, or is added above the rule; a candidate with *)
(* a rule line then replaces all that is behind the first one of the file   *)
Merged(w) ==
    LET old == writer[w].seen
        new == writer[w].wanted
        Replaced(f) == HasSection(new, f)
        Lands(g) == HasSection(old.above, g) \/ ~HasSection(old.behind, g) IN
    IF old = NoFile
    THEN [above |-> new, behind |-> {}, titled |-> writer[w].titled]
    ELSE [titled |-> old.titled,
          above |-> {g \in new : Lands(g)} \cup {f \in old.above : ~Replaced(f)},
          behind |-> IF writer[w].footed THEN {}
                     ELSE {g \in new : ~Lands(g)}
                          \cup {f \in old.behind : Replaced(f) => HasSection(old.above, f)}]

(* staged, and refused if the outcome has no title                          *)
Stage(w) ==
    /\ writer[w].at = "stage"
    /\ IF Merged(w).titled
       THEN /\ hidden' = [hidden EXCEPT ![w] = Merged(w)]
            /\ At(w, [writer[w] EXCEPT !.at = "replace"])
            /\ UNCHANGED lock
       ELSE Unlock(w) /\ At(w, Quiet) /\ UNCHANGED hidden
    /\ UNCHANGED <<file, used>>
Replace(w) ==
    /\ writer[w].at = "replace"
    /\ IF hidden[w] = NoFile THEN UNCHANGED file ELSE file' = hidden[w]
    /\ hidden' = [v \in Writer |-> NoFile]
    /\ Unlock(w)
    /\ At(w, Quiet)
    /\ UNCHANGED used

(* validate --fix: parsed and read, then opened for writing, which empties  *)
(* the file, and written with the flags, above a rule line that dates the   *)
(* extraction, else at the end                                              *)
FixRead(w) ==
    /\ writer[w].at = "idle"
    /\ Call
    /\ file # NoFile
    /\ RiskFlags \notin file.above \cup file.behind
    /\ At(w, [Quiet EXCEPT !.at = "open", !.seen = file])
    /\ UNCHANGED <<file, lock, hidden>>
Disturbed(local) == [v \in Writer |->
    IF writer[v].at \in {"stage", "replace"} THEN [writer[v] EXCEPT !.disturbed = TRUE]
    ELSE local[v]]
FixOpen(w) ==
    /\ writer[w].at = "open"
    /\ file' = [above |-> {}, behind |-> {}, titled |-> FALSE]
    /\ writer' = Disturbed([writer EXCEPT ![w].at = "write"])
    /\ UNCHANGED <<lock, hidden, used>>
FixWrite(w) ==
    /\ writer[w].at = "write"
    /\ \/ file' = [writer[w].seen EXCEPT !.above = @ \cup {RiskFlags}]
       \/ file' = [writer[w].seen EXCEPT !.behind = @ \cup {RiskFlags}]
    /\ writer' = Disturbed([writer EXCEPT ![w] = Quiet])
    /\ UNCHANGED <<lock, hidden, used>>

(* the user writes the file; a writer dies, which frees its lock but leaves *)
(* its stage                                                                *)
UserEdits ==
    /\ used.edits < MaxFileEdits
    /\ used' = [used EXCEPT !.edits = @ + 1]
    /\ file' \in Documents
    /\ writer' = Disturbed(writer)
    /\ UNCHANGED <<lock, hidden>>
WriterDies(w) ==
    /\ writer[w].at # "idle"
    /\ used.deaths < MaxWriterDeaths
    /\ used' = [used EXCEPT !.deaths = @ + 1]
    /\ Unlock(w)
    /\ At(w, Quiet)
    /\ UNCHANGED <<file, hidden>>

Writes(w) ==
    \/ Enrich(w) \/ CompanyApply(w)
    \/ Lock(w) \/ Read(w) \/ Stage(w) \/ Replace(w)
    \/ FixRead(w) \/ FixOpen(w) \/ FixWrite(w)
    \/ WriterDies(w)
CompanyNext == (\E w \in Writer : Writes(w)) \/ UserEdits
CompanySpec == CompanyInit /\ [][CompanyNext]_companyVars

-----------------------------------------------------------------------------
(* An enrichment that found a file loses, of the facts above its rule line  *)
(* when it is replaced, none that enrich can write, whoever added them in   *)
(* between, unless somebody wrote the file outside the lock after it was    *)
(* read (enrich, apply_candidate).  It does lose what it cannot write of a  *)
(* section it replaces, and what is behind the line; and one that found no  *)
(* file compares no digest and may lose any.                                *)
EnrichmentKeepsFacts ==
    [][\A w \in Writer :
          /\ writer[w].at = "replace" /\ writer'[w].at = "idle" /\ file' # file
          /\ writer[w].enriches /\ writer[w].expected # NoFile /\ ~writer[w].disturbed
          => file.above \cap Rendered \subseteq file'.above]_companyVars

=============================================================================
