------------------------------- MODULE MCHuman -------------------------------
(* Four tools whose files a human decides about, and which share nothing while
   they run: the proposals of the portfolio, the catalog of its repositories, the
   capture of titles, and the runs and comparisons over a labelled dataset.  One behaviour looks at one of them:
   the variable tool.  Proposals and report names, commands and runners are the
   same model values, so that one small group of permutations serves all. *)
EXTENDS Proposals, ResearchCatalog, SemanticEval, SemanticCapture, TLC

VARIABLE tool

(* Four cases: two of one title, a second family of the holdout split, and a
   family of the calibration split. *)
EvalFamilyOf == <<"a", "a", "b", "c">>
EvalTitleOf == <<"t", "t", "u", "v">>
EvalHoldout == {"a", "b"}

(* 299 trials without a miss in the code are one trial here, and five discordant
   families are one. *)
EvalTolerated == [n \in 0 .. 4 |-> IF n = 0 THEN 0 ELSE 1]
EvalSignificant == [n \in 0 .. 4 |-> IF n = 0 THEN 1 ELSE n]
EvalLabellings == {<<Reject, Reject, Unlabelled, Keep>>}

(* t1 and t2 differ in case only. *)
CaptureTitles == {"t1", "t2", "t3", "passed over"}
CaptureNormal == [t \in CaptureTitles |-> IF t = "t2" THEN "t1" ELSE t]
CaptureNotOurs == {"passed over"}

(* The second commit, by the author, on top of the first, by somebody else. *)
CatalogBefore == [c \in 1 .. 2 |-> 1 .. c]
OneRepository == [there |-> {1}, remote |-> FALSE, common |-> <<1, 2>>,
                  branch |-> <<1, 1>>, head |-> <<Attached, Attached>>]

(* A HEAD that is detached at first is at the second commit, and the directory
   that may be missing is the second.  The user can change either.          *)
SomeRepositories ==
    /\ \A o \in Occurrence : git.head[o] # 1
    /\ 1 \in git.there

MCInit ==
    /\ ProposalInit /\ CatalogInit /\ EvalInit /\ CaptureInit
    /\ \/ tool = "proposals" /\ dataset.gold /\ dataset.lock = Unsealed /\ filter = "absent"
       \/ tool = "catalog" /\ dataset.gold /\ dataset.lock = Unsealed /\ filter = "absent"
       \/ tool = "capture" /\ dataset.gold /\ dataset.lock = Unsealed
       \/ tool = "evaluation" /\ filter = "absent"
    /\ IF tool = "catalog" THEN SomeRepositories ELSE git = OneRepository

MCNext ==
    \/ /\ tool = "proposals" /\ ProposalNext
       /\ UNCHANGED <<tool, catalogVars, evalVars, captureVars>>
    \/ /\ tool = "catalog" /\ CatalogNext
       /\ UNCHANGED <<tool, proposalVars, evalVars, captureVars>>
    \/ /\ tool = "capture" /\ CaptureNext
       /\ UNCHANGED <<tool, proposalVars, catalogVars, evalVars>>
    \/ /\ tool = "evaluation" /\ EvalNext
       /\ UNCHANGED <<tool, proposalVars, catalogVars, captureVars>>

MCSpec == MCInit /\ [][MCNext]_<<tool, proposalVars, catalogVars, evalVars, captureVars>>

MCSymmetry == Permutations(Names) \cup Permutations(Runners) \cup Permutations(Text)
=============================================================================
