------------------------ MODULE RequirementManifest ------------------------
(* extract_requirement_manifest: a job description read line by line into   *)
(* the requirements an assessment has to answer.                            *)
EXTENDS Integers, Sequences

CONSTANTS
    Line,       \* the lines a job description is made of, see LineForm
    None,
    MaxLines    \* bound

Kind == {"required", "main duty", "preferred"}
(* A heading, a [bracket] and a ■ divider may name a kind; any other heading*)
(* ends the section; other brackets hold a word of a requirement subgroup   *)
(* or not.  A bullet has one part or, separated by commas, several; it may  *)
(* be indented, say "required", or be administrative ("kept" is FALSE).     *)
(* Prose may say that there is no information ("stated" is FALSE).          *)
LineForm ==
    [is : {"heading"}, kind : Kind \cup {None}]
    \cup [is : {"bracket"}, kind : Kind \cup {"subgroup", "other"}]
    \cup [is : {"divider"}, kind : Kind]
    \cup [is : {"bullet"}, indented : BOOLEAN, parts : 1..2, decisive : BOOLEAN,
          kept : BOOLEAN]
    \cup [is : {"prose"}, stated : BOOLEAN]

ASSUME LineAssumption ==
    /\ Line \subseteq LineForm
    /\ None \notin Kind \cup {"subgroup", "other"}
    /\ MaxLines \in Nat

VARIABLES
    jd,         \* the lines read so far
    scan        \* what extract_requirement_manifest knows after them

manifestVars == <<jd, scan>>

(* kind: of the section; started: nothing but its heading was read; grouped:*)
(* brackets in it are subgroups; parent: the draft that takes indented      *)
(* bullets, or 0; drafts: the parents, each with the lines of its children  *)
ManifestInit ==
    /\ jd = <<>>
    /\ scan = [kind |-> None, started |-> FALSE, grouped |-> FALSE,
               ambiguous |-> FALSE, parent |-> 0, drafts |-> <<>>]

(* a section of a kind begins, or none does                                 *)
Section(kind, started) ==
    [scan EXCEPT !.kind = kind, !.started = started, !.grouped = FALSE, !.parent = 0]

Heading(l) ==
    /\ l.is = "heading"
    /\ scan' = Section(l.kind, l.kind # None)

(* a [label] that is no section title groups the items of a section it      *)
(* opens; any other ends the section, and what follows it may be lost       *)
Subgroup(l) ==
    l.kind = "subgroup" /\ scan.kind = "required" /\ (scan.started \/ scan.grouped)
(* mutation: a section that a label ends is not ambiguous                   *)
BracketEndsQuietly(l) ==
    /\ l.is = "bracket"
    /\ scan' = IF l.kind \in Kind THEN Section(l.kind, FALSE)
               ELSE IF Subgroup(l) THEN [scan EXCEPT !.started = FALSE, !.grouped = TRUE,
                                                    !.parent = 0]
               ELSE [scan EXCEPT !.kind = None, !.parent = 0]
Bracket(l) ==
    /\ l.is = "bracket"
    /\ scan' = IF l.kind \in Kind THEN Section(l.kind, FALSE)
               ELSE IF Subgroup(l) THEN [scan EXCEPT !.started = FALSE, !.grouped = TRUE,
                                                    !.parent = 0]
               ELSE [scan EXCEPT !.kind = None, !.parent = 0,
                                 !.ambiguous = @ \/ scan.kind = "required"]

Divider(l) ==
    /\ l.is = "divider"
    /\ scan' = Section(l.kind, FALSE)

(* an indented bullet is a child of the last parent of its section          *)
Draft(l) == [kind |-> scan.kind, decisive |-> scan.kind = "required" /\ l.decisive,
             parts |-> l.parts, line |-> Len(jd) + 1, children |-> <<>>]
Bullet(l) ==
    /\ l.is = "bullet"
    /\ scan' =
        IF scan.kind = None \/ ~l.kept THEN [scan EXCEPT !.started = FALSE]
        ELSE IF l.indented /\ scan.parent # 0
        THEN [scan EXCEPT !.started = FALSE,
                 !.drafts[scan.parent].children = Append(@, Len(jd) + 1)]
        ELSE [scan EXCEPT !.started = FALSE, !.parent = Len(scan.drafts) + 1,
                 !.drafts = Append(@, Draft(l))]

(* text that is no item cannot be assessed                                  *)
Prose(l) ==
    /\ l.is = "prose"
    /\ scan' = [scan EXCEPT !.started = FALSE,
                           !.ambiguous = @ \/ (scan.kind = "required" /\ l.stated)]

ReadLine ==
    /\ Len(jd) < MaxLines
    /\ \E l \in Line :
        /\ jd' = Append(jd, l)
        /\ Heading(l) \/ Bracket(l) \/ Divider(l) \/ Bullet(l) \/ Prose(l)

-----------------------------------------------------------------------------
(* The manifest.  A parent is <<its draft>>; the children a composite text  *)
(* splits into, and then the indented ones, are <<draft, number>>, where    *)
(* the number of an indented child comes after those of the parts.          *)
Drafts == DOMAIN scan.drafts
Parts(d) == IF scan.drafts[d].parts > 1 THEN 1..scan.drafts[d].parts ELSE {}
Nested(d) ==
    scan.drafts[d].parts + 1 .. scan.drafts[d].parts + Len(scan.drafts[d].children)
Assessable(d) == Parts(d) \cup Nested(d) = {}
LeavesOf(d) == IF Assessable(d) THEN {<<d>>} ELSE {<<d, i>> : i \in Parts(d) \cup Nested(d)}

(* without_main_duty: what the model is asked about                         *)
Parents == {d \in Drafts : scan.drafts[d].kind # "main duty"}
Leaves == UNION {LeavesOf(d) : d \in Parents}

(* aggregate_parent_matches: of the matches of its leaves                   *)
ParentMatch(match, d) ==
    IF \A l \in LeavesOf(d) : match[l] = "met" THEN "met"
    ELSE IF \A l \in LeavesOf(d) : match[l] = "none" THEN "none" ELSE "partial"

-----------------------------------------------------------------------------
(* The section a reader sees line i in: that of the last title before it.   *)
Titles(i) ==
    {j \in 1..i - 1 : \/ jd[j].is \in {"heading", "divider"}
                      \/ (jd[j].is = "bracket" /\ jd[j].kind \in Kind)}
IsRequired(i) ==
    \E j \in Titles(i) : jd[j].kind = "required" /\ (\A k \in Titles(i) : k <= j)
SaysSomething(l) ==
    \/ l.is = "prose" /\ l.stated
    \/ l.is = "bullet" /\ l.kept

(* No required qualification is lost without a word: every line that says   *)
(* something under a title of required qualifications has become a parent   *)
(* or a child of a required one, or the manifest is flagged as ambiguous,   *)
(* which holds the verdict back (extract_requirement_manifest).             *)
RequiredIsExtractedOrFlagged ==
    \A i \in DOMAIN jd :
        IsRequired(i) /\ SaysSomething(jd[i]) =>
            \/ scan.ambiguous
            \/ \E d \in Drafts :
                  /\ scan.drafts[d].kind = "required"
                  /\ \/ scan.drafts[d].line = i
                     \/ \E c \in DOMAIN scan.drafts[d].children :
                           scan.drafts[d].children[c] = i
=============================================================================
