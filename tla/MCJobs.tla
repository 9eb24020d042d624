------------------------------- MODULE MCJobs -------------------------------
(* Five parts that share nothing while they run: the checks of postings, the
   migration of the legacy folders, the file of a company, the query index and
   the gate of assessments.  One behaviour looks at one of them, the others
   keep one initial state: the variable part. *)
EXTENDS PostingChecks, StorageMigration, CompanyInfo, IndexRefresh, AssessmentGate, TLC

VARIABLE part

Looks == {"checks", "migration", "company", "index", "gate"}

(* Of records of three platforms, those of offercent are enough to trip it. *)
CheckedPlatforms == <<"offercent", "offercent", "wanted", "offercent", "offercent", "zighang">>

(* 22 is the rest of a name like private-2-a, whose extracted ID is 2. *)
Plain(n) == [platform |-> Nil, id |-> n, rest |-> n, number |-> TRUE]
Prefixed(p, n) ==
    [platform |-> p, id |-> n, rest |-> IF p = "private" THEN 22 ELSE n, number |-> FALSE]
Names == {Plain(1), Prefixed("remember", 1), Prefixed("private", 2), Prefixed("headhunter", 3)}
UrlSets == {{}, {<<"wanted", 1>>}, {<<"wanted", 1>>, <<"remember", 2>>}}
JdForms == [name : Names, urls : UrlSets, structured : BOOLEAN]

OneJd ==
    [jd |-> ("a" :> [name |-> Plain(1), urls |-> {<<"wanted", 1>>}, structured |-> FALSE]),
     screening |-> ("s" :> Plain(1)), owned |-> "unknown"]

(* Two JDs and two screenings; the second of each has a plain name, or one
   with the prefix of a platform. *)
LegacyTrees ==
    {[jd |-> ("a" :> j) @@ ("b" :> k), screening |-> ("s" :> x) @@ ("t" :> y), owned |-> "known"] :
        j \in JdForms, k \in [name : {Plain(1)}, urls : {{<<"wanted", 1>>}, {<<"remember", 2>>}},
                              structured : BOOLEAN],
        x \in Names, y \in {Plain(1), Prefixed("remember", 2)}}
    \cup {OneJd}

(* The third fact of the first section is one that enrich does not write (the
   change of a month, or the percentile of a salary). *)
CompanyFacts == {<<"info", 1>>, <<"info", 2>>, <<"info", 3>>, <<"staff", 1>>}
RenderedFacts == {<<"info", 1>>, <<"info", 2>>, <<"staff", 1>>}
RiskSection == <<"risk", 1>>
UserDocuments ==
    [above : {{}, {<<"info", 1>>}, {<<"info", 1>>, <<"info", 3>>}, {<<"staff", 1>>}},
     behind : {{}, {<<"info", 2>>}, {<<"staff", 1>>}}, titled : {TRUE}]
ApplyCandidates ==
    [facts : {{<<"info", 2>>}, {<<"info", 1>>, <<"staff", 1>>}}, titled : {TRUE}, footed : BOOLEAN]
    \cup {[facts |-> CompanyFacts, titled |-> FALSE, footed |-> TRUE]}

IndexFolder == [k \in Keys |-> IF k = "k1" THEN "first" ELSE "second"]
IndexProcesses == {{"console"}, {"command"}}

Title(k) == [is |-> "heading", kind |-> k]
Label(k) == [is |-> "bracket", kind |-> k]
Item(indented, parts, decisive) ==
    [is |-> "bullet", indented |-> indented, parts |-> parts, decisive |-> decisive,
     kept |-> TRUE]
Text(stated) == [is |-> "prose", stated |-> stated]

(* Every job description of up to four of these lines is extracted; three of
   them are assessed. *)
PostingLines ==
    {Title("required"), Title("main duty"), Title(None),
     Label("required"), Label("preferred"), Label("subgroup"), Label("other"),
     [is |-> "divider", kind |-> "required"],
     Item(FALSE, 1, FALSE), Item(FALSE, 1, TRUE), Item(FALSE, 2, TRUE), Item(TRUE, 1, FALSE),
     [Item(FALSE, 1, FALSE) EXCEPT !.kept = FALSE],
     Text(TRUE), Text(FALSE)}

AssessedPostings ==
    {<<Title("required"), Item(FALSE, 1, TRUE), Item(FALSE, 2, FALSE)>>,
     <<Title("required"), Item(FALSE, 1, TRUE), Text(TRUE)>>,
     <<Title("required"), Item(FALSE, 2, TRUE), Label("preferred"), Item(FALSE, 1, FALSE)>>}

MCInit ==
    /\ part \in Looks
    /\ CheckInit /\ MigrationInit /\ CompanyInit /\ IndexInit /\ GateInit
    /\ part # "checks" => posting = [r \in Records |-> "active"]
    /\ part # "migration" => tree = OneJd

MCNext ==
    \/ /\ part = "checks" /\ CheckNext
       /\ UNCHANGED <<part, migrationVars, companyVars, indexVars, gateVars>>
    \/ /\ part = "migration" /\ MigrationNext
       /\ UNCHANGED <<part, checkVars, companyVars, indexVars, gateVars>>
    \/ /\ part = "company" /\ CompanyNext
       /\ UNCHANGED <<part, checkVars, migrationVars, indexVars, gateVars>>
    \/ /\ part = "index" /\ IndexNext
       /\ UNCHANGED <<part, checkVars, migrationVars, companyVars, gateVars>>
    \/ /\ part = "gate" /\ GateNext
       /\ UNCHANGED <<part, checkVars, migrationVars, companyVars, indexVars>>

MCVars == <<part, checkVars, migrationVars, companyVars, indexVars, gateVars>>

MCSpec == MCInit /\ [][MCNext]_MCVars
=============================================================================
