-------------------------- MODULE ResearchCatalog --------------------------
(* validate_research: the catalog of the portfolio research, which a human and
   an agent keep in files, against the repositories it was made from.  Every git
   command is a step, and the user commits, checks out, resets, deletes a branch
   or moves a directory between any two of them: nothing keeps a repository
   still while it is looked at.  Commits never change, so a commit is its number
   and its author, date and parents are constants.  validate_research runs over
   everything (mode full) or over one lane of repositories (mode lane, with the
   check of the dispositions). *)
EXTENDS Naturals, Sequences, FiniteSets, FiniteSetsExt

CONSTANTS
    Occurrence,   \* directories with a repository, 1 .. n in the order of their paths
    Commit,       \* commits, numbers
    Before,       \* Before[c]: c and its ancestors
    Qualifying,   \* commits of a listed author within a period of the manifest
    Attached,     \* a HEAD that names the branch
    Missing,      \* no branch; nothing observed behind a broken pointer
    MaxChanges    \* changes of the repositories and of the catalog

VARIABLES
    git,          \* the repositories on disk
    catalog,      \* manifest.md, catalog.md, dispositions, lanes, journals
    validation,   \* the validation that runs
    during,       \* auxiliary: what was reachable always, or ever, since it began
    changes

catalogVars == <<git, catalog, validation, during, changes>>

-----------------------------------------------------------------------------
(* a worktree, whose .git is a file, without the repository it belongs to   *)
Broken(o) == git.common[o] # o /\ git.common[o] \notin git.there
Readable(o) == o \in git.there /\ ~Broken(o)

BranchOf(o) == git.branch[git.common[o]]
HeadOf(o) == IF git.head[o] = Attached THEN BranchOf(o) ELSE git.head[o]
Reachable(o) == UNION {Before[c] : c \in {HeadOf(o), BranchOf(o)} \ {Missing}}

(* what the commands of _observe_path print: HEAD, the refs, rev-list.  The
   common directory and the remote do not change.                           *)
Printed(o) == <<HeadOf(o), BranchOf(o), Reachable(o)>>

(* an observation is such a triple, Missing for a broken pointer            *)
Resolved(seen) == {o \in DOMAIN seen : seen[o] # Missing}
StateOf(observation) ==
    IF observation = Missing THEN Missing ELSE <<observation[1], observation[2]>>
RefsOf(members, seen) ==
    {<<"HEAD", seen[o][1]>> : o \in members}
        \cup {<<"branch", seen[o][2]>> : o \in {q \in members : seen[q][2] # Missing}}
CommitsOf(members, seen) == UNION {seen[o][3] : o \in members}

(* repository_group_key: worktrees of one directory are one repository, and
   so are clones of one remote in which the same commits are reachable      *)
SameRepository(o, q, seen) ==
    LET Alone(x) == \A y \in Resolved(seen) \ {x} : git.common[y] # git.common[x] IN
    \/ git.common[o] = git.common[q]
    \/ git.remote /\ Alone(o) /\ Alone(q) /\ seen[o][3] = seen[q][3]

Repositories(seen) ==
    {[members |-> m, refs |-> RefsOf(m, seen), commits |-> CommitsOf(m, seen)] :
        m \in {{q \in Resolved(seen) : SameRepository(o, q, seen)} : o \in Resolved(seen)}}

(* classify_commits: those of a listed author within a period               *)
Classified(commits) == Qualifying \cap commits

(* the catalog somebody made of the repositories as they are: dispositions  *)
(* of what qualifies, all settled with their evidence, everything in lane 1 *)
Recorded ==
    LET seen == [o \in git.there |-> IF Broken(o) THEN Missing ELSE Printed(o)] IN
    [occurrences |-> [o \in git.there |-> StateOf(seen[o])],
     groups |-> {[members |-> r.members, refs |-> r.refs, commits |-> r.commits,
                  dispositions |-> Classified(r.commits),
                  count |-> Cardinality(Classified(r.commits)),
                  settled |-> TRUE, lanes |-> {1}] : r \in Repositories(seen)},
     complete |-> TRUE, closed |-> TRUE]

NoValidation ==
    [at |-> "idle", mode |-> "full", catalog |-> Missing, roots |-> {}, todo |-> {},
     reading |-> <<>>, seen |-> <<>>, again |-> <<>>, log |-> <<>>]
NoHistory == [always |-> <<>>, ever |-> <<>>, there |-> {}]

CatalogInit ==
    /\ \E there \in SUBSET Occurrence \ {{}}, remote \in BOOLEAN,
          common \in [Occurrence -> Occurrence],
          branch \in [Occurrence -> Commit \cup {Missing}],
          head \in [Occurrence -> Commit \cup {Attached}] :
        /\ \A o \in Occurrence : /\ common[o] <= o
                                 /\ common[common[o]] = common[o]
                                 /\ branch[o] = Missing <=> common[o] # o
        /\ remote => common = [o \in Occurrence |-> o]
        /\ git = [there |-> there, remote |-> remote, common |-> common,
                  branch |-> branch, head |-> head]
    /\ catalog = Recorded
    /\ validation = NoValidation
    /\ during = NoHistory
    /\ changes = 0

-----------------------------------------------------------------------------
(* What may be read before git is asked: no journal blocks a file; every
   repository is in one lane, or, for one lane, none of its own is in another,
   it is complete and has as many dispositions as the catalog counts.       *)
Selected(mode, c) == {g \in c.groups : mode = "full" \/ 1 \in g.lanes}

AllLoads(c) == c.closed /\ \A g \in c.groups : Cardinality(g.lanes) = 1
LaneLoads(c) ==
    /\ c.closed /\ c.complete
    /\ \A g \in Selected("lane", c) :
        g.lanes = {1} /\ Cardinality(g.dispositions) = g.count

(* the roots that are walked: all of them, or each repository of the lane   *)
Roots(mode, c) ==
    IF mode = "full" THEN {Occurrence}
    ELSE {{o} : o \in UNION {g.members : g \in Selected(mode, c)}}

BeginValidation(mode) ==
    LET Now == [o \in Occurrence |-> IF Readable(o) THEN Reachable(o) ELSE {}] IN
    /\ validation.at = "idle"
    /\ IF IF mode = "full" THEN AllLoads(catalog) ELSE LaneLoads(catalog)
       THEN /\ validation' = [NoValidation EXCEPT !.at = "discover", !.mode = mode,
                                 !.catalog = catalog, !.roots = Roots(mode, catalog)]
            /\ during' = [always |-> Now, ever |-> Now, there |-> git.there]
       ELSE validation' = [NoValidation EXCEPT !.at = "failed"] /\ UNCHANGED during
    /\ UNCHANGED <<git, catalog, changes>>

ValidationFails ==
    /\ validation' = [NoValidation EXCEPT !.at = "failed"]
    /\ during' = NoHistory
    /\ UNCHANGED <<git, catalog, changes>>
Validate(next) == validation' = next /\ UNCHANGED <<git, catalog, during, changes>>
IsNext(o) == validation.todo # {} /\ o = Min(validation.todo)

(* discover: the directories of a root with a repository, then each of them *)
WalkRoot ==
    /\ validation.at = "discover" /\ validation.todo = {}
    /\ \E root \in validation.roots :
        Validate([validation EXCEPT !.roots = @ \ {root}, !.todo = root \cap git.there])

FindBroken(o) ==
    /\ validation.at = "discover" /\ IsNext(o) /\ validation.reading = <<>>
    /\ o \in git.there /\ Broken(o)
    /\ Validate([validation EXCEPT !.todo = @ \ {o},
            !.seen = [x \in DOMAIN @ \cup {o} |-> IF x = o THEN Missing ELSE @[x]]])

(* _observe_path, one command; the last one completes the observation, which
   is the first of discover or the second of observe                        *)
Observe(o) ==
    LET sofar == Append(validation.reading, Printed(o)[Len(validation.reading) + 1])
        With(observed) == [x \in DOMAIN observed \cup {o} |->
                               IF x = o THEN sofar ELSE observed[x]] IN
    /\ validation.at \in {"discover", "observe"} /\ IsNext(o)
    /\ Readable(o)
    /\ IF Len(sofar) < 3
       THEN Validate([validation EXCEPT !.reading = sofar])
       ELSE IF validation.at = "discover"
       THEN Validate([validation EXCEPT !.reading = <<>>, !.todo = @ \ {o},
                                        !.seen = With(@)])
       ELSE Validate([validation EXCEPT !.reading = <<>>, !.todo = @ \ {o},
                                        !.again = With(@)])

(* a full validation observes each resolved repository a second time        *)
ObserveAgain ==
    /\ validation.at = "discover" /\ validation.mode = "full"
    /\ validation.todo = {} /\ validation.roots = {}
    /\ Validate([validation EXCEPT !.at = "observe", !.todo = Resolved(validation.seen)])

(* _validate_live_inventory and _validate_selected_live_dispositions, before
   the commits are listed                                                   *)
InventoryMatches(v) ==
    /\ [o \in DOMAIN v.seen |-> StateOf(v.seen[o])] = v.catalog.occurrences
    /\ Repositories(v.again) =
        {[members |-> g.members, refs |-> g.refs, commits |-> g.commits] :
            g \in v.catalog.groups}
LaneMatches(v) ==
    \A g \in Selected("lane", v.catalog) :
        /\ \A o \in g.members : /\ o \in DOMAIN v.seen
                                /\ StateOf(v.seen[o]) = v.catalog.occurrences[o]
        /\ RefsOf(g.members, v.seen) = g.refs

CompareInventory ==
    /\ validation.at = IF validation.mode = "full" THEN "observe" ELSE "discover"
    /\ validation.todo = {} /\ validation.roots = {}
    /\ IF IF validation.mode = "full" THEN InventoryMatches(validation)
                                     ELSE LaneMatches(validation)
       THEN Validate([validation EXCEPT !.at = "log", !.todo = UNION {g.members :
                         g \in Selected(validation.mode, validation.catalog)}])
       ELSE ValidationFails

(* mutation: the commits only a detached HEAD reaches are not listed        *)
LogBranches(o) ==
    /\ validation.at = "log" /\ IsNext(o)
    /\ Readable(o)
    /\ Validate([validation EXCEPT !.todo = @ \ {o},
            !.log = [x \in DOMAIN @ \cup {o} |->
                IF x # o THEN @[x]
                ELSE IF BranchOf(o) = Missing THEN {} ELSE Before[BranchOf(o)]]])
(* _commits_for_occurrence: git log HEAD --branches --remotes --tags        *)
ListCommits(o) ==
    /\ validation.at = "log" /\ IsNext(o)
    /\ Readable(o)
    /\ Validate([validation EXCEPT !.todo = @ \ {o},
            !.log = [x \in DOMAIN @ \cup {o} |-> IF x = o THEN Reachable(o) ELSE @[x]]])

(* classify_refresh over two sets of refs of one repository.  A name that
   several worktrees use stands for the ref that sorts last.                *)
ByName(refs) ==
    [name \in {r[1] : r \in refs} |-> Max({r[2] : r \in {s \in refs : s[1] = name}})]
IsAncestor(old, new, commits) == old = new \/ (old \in Before[new] /\ new \in commits)
Incremental(previous, current, commits) ==
    LET old == ByName(previous)
        new == ByName(current) IN
    /\ DOMAIN old \subseteq DOMAIN new
    /\ \A name \in DOMAIN old : IsAncestor(old[name], new[name], commits)

Listed(v, g) == UNION {v.log[o] : o \in g.members}

(* what is listed against the dispositions                                  *)
AllJudged(v, g) ==
    /\ g.dispositions = Classified(Listed(v, g))
    /\ Incremental(g.refs, RefsOf(g.members, v.again), Listed(v, g))
LaneJudged(v, g) ==
    /\ Listed(v, g) = g.commits
    /\ g.dispositions = Classified(Listed(v, g))
    /\ g.settled

JudgeGroups ==
    /\ validation.at = "log" /\ validation.todo = {}
    /\ IF \A g \in Selected(validation.mode, validation.catalog) :
            IF validation.mode = "full" THEN AllJudged(validation, g)
                                        ELSE LaneJudged(validation, g)
       THEN Validate([validation EXCEPT !.at = "passed"])
       ELSE ValidationFails

(* A command fails: the directory is gone, a time limit, too much output.   *)
CommandFails ==
    /\ validation.at \in {"discover", "observe", "log"} /\ validation.todo # {}
    /\ ValidationFails

ReportIssues ==
    /\ validation.at \in {"passed", "failed"}
    /\ validation' = NoValidation /\ during' = NoHistory
    /\ UNCHANGED <<git, catalog, changes>>

-----------------------------------------------------------------------------
(* The user works in the repositories.                                      *)
GitStates ==
    LET dirs == {o \in Occurrence : git.common[o] = o}
        attached(d) == \E o \in Occurrence : git.common[o] = d /\ git.head[o] = Attached IN
    {[git EXCEPT !.branch[d] = c] : d \in dirs, c \in Commit}
    \cup {[git EXCEPT !.branch[d] = Missing] : d \in {x \in dirs : ~attached(x)}}
    \cup {[git EXCEPT !.head[o] = c] : o \in Occurrence, c \in Commit}
    \cup {[git EXCEPT !.head[o] = Attached] : o \in {x \in Occurrence : BranchOf(x) # Missing}}
    \cup {[git EXCEPT !.there = @ \ {o}] : o \in Occurrence}
    \cup {[git EXCEPT !.there = @ \cup {o}] : o \in Occurrence}

UserWorks ==
    /\ changes < MaxChanges
    /\ changes' = changes + 1
    /\ git' \in GitStates \ {git}
    /\ during' = IF validation.at \notin {"discover", "observe", "log"} THEN during
                 ELSE [always |-> [o \in Occurrence |->
                           IF Readable(o)' THEN during.always[o] \cap Reachable(o)' ELSE {}],
                       ever |-> [o \in Occurrence |->
                           during.ever[o] \cup IF Readable(o)' THEN Reachable(o)' ELSE {}],
                       there |-> during.there \cap git'.there]
    /\ UNCHANGED <<catalog, validation>>

(* The research goes on: dispositions, counts, lanes, journals change.      *)
CatalogEdits(g) ==
    {[g EXCEPT !.dispositions = d, !.count = Cardinality(d)] : d \in SUBSET Commit}
    \cup {[g EXCEPT !.count = @ + 1], [g EXCEPT !.settled = FALSE]}
    \cup {[g EXCEPT !.lanes = l] : l \in SUBSET {1, 2}}

Research ==
    /\ changes < MaxChanges /\ validation.at = "idle"
    /\ changes' = changes + 1
    /\ \/ \E g \in catalog.groups, h \in UNION {CatalogEdits(x) : x \in catalog.groups} :
            /\ h.members = g.members /\ h # g
            /\ catalog' = [catalog EXCEPT !.groups = (@ \ {g}) \cup {h}]
       \/ catalog' \in {[catalog EXCEPT !.complete = ~@], [catalog EXCEPT !.closed = ~@]}
    /\ UNCHANGED <<git, validation, during>>

CatalogNext ==
    \/ \E mode \in {"full", "lane"} : BeginValidation(mode)
    \/ WalkRoot \/ ObserveAgain \/ CompareInventory \/ JudgeGroups
    \/ CommandFails \/ ReportIssues
    \/ \E o \in Occurrence : FindBroken(o) \/ Observe(o) \/ ListCommits(o)
    \/ UserWorks \/ Research

CatalogSpec == CatalogInit /\ [][CatalogNext]_catalogVars

-----------------------------------------------------------------------------
(* A validation that passes tells the truth of the time it took, whatever the
   user did meanwhile: every qualifying commit that could be reached in a
   repository all the time has its disposition, every disposition is of a commit
   that could be reached at some moment, and so is the commit set; and a full
   validation overlooks no directory that was there throughout.  When nothing
   moved, the dispositions are exactly the qualifying commits.              *)
ValidatedIsTrue ==
    validation.at = "passed" =>
        /\ \A g \in Selected(validation.mode, validation.catalog) :
            LET always == UNION {during.always[o] : o \in g.members}
                ever == UNION {during.ever[o] : o \in g.members} IN
            /\ always \cap Qualifying \subseteq g.dispositions
            /\ g.dispositions \subseteq ever \cap Qualifying
            /\ always \subseteq g.commits /\ g.commits \subseteq ever
        /\ validation.mode = "full" =>
            during.there \subseteq DOMAIN validation.catalog.occurrences
=============================================================================
