--------------------------- MODULE AssessmentGate ---------------------------
(* From the answer of a provider to the document run_screening publishes:   *)
(* the quality gate, the table, the demotion of rows the résumé does not    *)
(* support, and the guard that has the last word on the verdict.            *)
EXTENDS RequirementManifest, FiniteSets

CONSTANTS
    Assessed,       \* the job descriptions that are assessed
    Refused         \* no document

Match == {"met", "partial", "none"}
Verdict == {"recommended", "hold", "not recommended"}
(* rules a rejection may rest on, and one it may not                        *)
RejectionRules == {"domain"}
Rule == RejectionRules \cup {"pay"}

VARIABLE published      \* the document, None before, Refused if there is none

gateVars == <<jd, scan, published>>

(* Of the job description and the résumé: the cap on experience stated,     *)
(* compared with the policy, and what a row lacks: the résumé has no word of*)
(* the requirement, or no file the row cites.                               *)
Facts == [cap : {None, "reject", "hold"},
          lacks : [Parents -> {"nothing", "words", "source"}]]

(* parse_screening_assessment: a match for every leaf; whether the sources  *)
(* cited hold the quotes; parents or rules a rejection rests on, rules with *)
(* a quoted line of the job description; what the two conditions of a hold  *)
(* wait for; how many required matches the text counts; a verdict the text  *)
(* repeats.                                                                 *)
AnswersWith(verdict) ==
    [verdict : {verdict}, match : [Leaves -> Match],
     cites : {"held", "misfiled", "unknown"},
     basis : IF verdict = "not recommended" THEN SUBSET Parents ELSE {{}},
     rules : IF verdict = "not recommended" THEN SUBSET Rule ELSE {{}, {"domain"}},
     quoted : IF verdict = "not recommended" THEN SUBSET Rule ELSE {{}},
     condition : IF verdict = "hold" THEN {None, "item", "rule"} ELSE {None},
     declared : {None, 0, 1, 2},
     repeats : {None, "recommended", "hold"},
     by : {"strong", "local"}]

Affirmed(match) == \E l \in Leaves : match[l] # "none"
RequiredLeaves == {l \in Leaves : scan.drafts[l[1]].kind = "required"}
(* count_quality_issues                                                     *)
CountHolds(declared, match) ==
    declared \in {None, Cardinality({l \in RequiredLeaves : match[l] = "met"})}

(* reattribute_citations: a quote that one other source holds is filed there*)
Filed(cites) == IF cites = "misfiled" THEN "held" ELSE cites

(* assessment_quality_issues, _rejection_rule_issues: a rejection rests on  *)
(* decisive requirements nothing matches, or on rules with a quote          *)
RowSupports(match, d) ==
    /\ scan.drafts[d].kind = "required" /\ scan.drafts[d].decisive
    /\ ParentMatch(match, d) = "none"
BasisHolds(a) ==
    /\ a.verdict # "not recommended" <=> a.basis = {} /\ a.rules = {}
    /\ \A d \in a.basis : RowSupports(a.match, d)
    /\ a.rules \subseteq RejectionRules
    /\ a.rules = a.quoted
(* a hold says what would promote and what would reject it: a rule, or an   *)
(* item, row or leaf, that is required and still open                       *)
StillOpen(a) ==
    \/ \E l \in RequiredLeaves : a.match[l] # "met"
    \/ \E d \in Parents : scan.drafts[d].kind = "required" /\ ParentMatch(a.match, d) # "met"
ConditionHolds(a) ==
    /\ a.verdict = "hold" => a.condition # None
    /\ a.condition = "item" => StillOpen(a)
(* _experience_cap_issues                                                   *)
CapHolds(a, cap) ==
    /\ cap = "reject" => a.verdict = "not recommended"
    /\ cap = "hold" => a.verdict # "recommended"
QualityHolds(a, facts) ==
    /\ CountHolds(a.declared, a.match)
    /\ Affirmed(a.match) => Filed(a.cites) = "held"
    /\ BasisHolds(a)
    /\ ConditionHolds(a)
    /\ CapHolds(a, facts.cap)

(* check_rows: a row that is met with no word of it in the résumé is        *)
(* demoted, and any row that cites a file which is not one of its sources   *)
Demoted(a, facts) ==
    {d \in Parents : \/ facts.lacks[d] = "source"
                     \/ facts.lacks[d] = "words" /\ ParentMatch(a.match, d) = "met"}
(* mutation: the demoted rows are counted and stay as they are              *)
RowsAsAnswered(a, facts) == [d \in Parents |-> ParentMatch(a.match, d)]
(* apply_demotions on the table render_screening_markdown writes            *)
Rows(a, facts) ==
    [d \in Parents |-> IF d \in Demoted(a, facts) THEN "none" ELSE ParentMatch(a.match, d)]
Effective(a, facts) ==
    [l \in Leaves |-> IF l[1] \in Demoted(a, facts) THEN "none" ELSE a.match[l]]
(* the counts must be true of what is left                                  *)
Recounts(a, facts) ==
    Demoted(a, facts) # {} => CountHolds(a.declared, Effective(a, facts))

(* mutation: only a requirement supports a rejection                        *)
SupportedByRows(a) == \E d \in a.basis : RowSupports(a.match, d)
(* _decision_basis_supports_not_recommended                                 *)
Supported(a) ==
    \/ a.rules \cap RejectionRules # {}
    \/ \E d \in a.basis : RowSupports(a.match, d)

(* _apply_conservative_verdict_guard                                        *)
MissingRequired(rows) ==
    Cardinality({d \in Parents : scan.drafts[d].kind = "required" /\ rows[d] = "none"})
Held(a, rows) ==
    \/ a.verdict = "recommended" /\ (MissingRequired(rows) >= 2 \/ a.by = "local")
    \/ a.verdict = "not recommended" /\ ~Supported(a)
    \/ scan.ambiguous /\ ~Supported(a)
Guarded(a, rows) == IF Held(a, rows) THEN "hold" ELSE a.verdict

(* rewrite_verdict_line writes every final verdict of the text anew; else   *)
(* the text may contradict the heading, which parse_verdict_candidates sees *)
Candidates(a, verdict) ==
    IF verdict # a.verdict THEN {verdict} ELSE {verdict, a.repeats} \ {None}

Document(a, facts) ==
    LET rows == Rows(a, facts)
        verdict == Guarded(a, rows) IN
    [verdict |-> verdict, rows |-> rows, by |-> a.by, declared |-> a.declared,
     leaves |-> Effective(a, facts), basis |-> a.basis, rules |-> a.rules, facts |-> facts]
Passes(a, facts) ==
    /\ QualityHolds(a, facts)
    /\ Recounts(a, facts)
    /\ Candidates(a, Guarded(a, Rows(a, facts))) = {Guarded(a, Rows(a, facts))}

Screen ==
    /\ published = None
    /\ jd \in Assessed
    /\ Leaves # {}
    /\ \E facts \in Facts, verdict \in Verdict : \E a \in AnswersWith(verdict) :
          published' = IF Passes(a, facts) THEN Document(a, facts) ELSE Refused
    /\ UNCHANGED manifestVars

GateInit == ManifestInit /\ published = None
GateNext == (published = None /\ ReadLine /\ UNCHANGED published) \/ Screen
GateSpec == GateInit /\ [][GateNext]_gateVars

-----------------------------------------------------------------------------
IsPublished == published \notin {None, Refused}

(* A job description that asks for less experience than the candidate has   *)
(* never ends as the policy forbids, whatever the provider says and the     *)
(* guard makes of it: the gate's rule and the guard's agree                 *)
(* (_experience_cap_issues, _apply_conservative_verdict_guard).             *)
CapIsEnforced ==
    IsPublished =>
        /\ published.facts.cap = "reject" => published.verdict = "not recommended"
        /\ published.facts.cap = "hold" => published.verdict # "recommended"

(* A recommendation rests on the table it is published with: by a strong    *)
(* provider, of an unambiguous job description, with at most one required   *)
(* row unmatched and no row met that lacks words or source; a rejection     *)
(* on a decisive row without a match or on a rule; and what the text counts *)
(* is true of the table, where a row demoted to "none" counts as unmatched  *)
(* with all its leaves (check_rows, apply_demotions, the guard).            *)
VerdictRestsOnTable ==
    IsPublished =>
        /\ \A d \in Parents : published.rows[d] = "met" => published.facts.lacks[d] = "nothing"
        /\ published.verdict = "recommended" =>
              /\ published.by = "strong" /\ ~scan.ambiguous
              /\ MissingRequired(published.rows) <= 1
        /\ published.verdict = "not recommended" =>
              \/ published.rules \cap RejectionRules # {}
              \/ \E d \in published.basis :
                    scan.drafts[d].decisive /\ published.rows[d] = "none"
        /\ published.declared \in {None, Cardinality({l \in RequiredLeaves :
               published.leaves[l] = "met" /\ published.rows[l[1]] # "none"})}

=============================================================================
