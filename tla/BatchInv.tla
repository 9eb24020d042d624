------------------------------ MODULE BatchInv ------------------------------
(* The inductive invariant of ProposalBatch: the order of the attempts and  *)
(* what they leave readable.                                                *)
EXTENDS ProposalBatch, PublishInv

Compensated(id) == journal[id] # None /\ journal[id].state = "compensated"

(* an attempt is begun only when all the earlier ones are compensated       *)
AttemptsInOrder ==
    \A a, b \in Id : a < b /\ journal[b] # None => Compensated(a)
WalkedOver ==
    Calling => \A a \in Id : a < run.id => Compensated(a)

(* targets change only under an unfinished journal, or when a doubtful      *)
(* commit is taken back                                                     *)
TakenBack(id) == InDoubt(id) /\ run.was = None
JournalFirst ==
    /\ At({"prepare"}) => journal[run.id] = None
    /\ At({"replace", "mark", "caught"}) => Nonterminal(run.id)
    /\ At({"judge", "restore"}) => Nonterminal(run.id) \/ TakenBack(run.id)

(* a walk does not run past the last attempt of the bound                   *)
WalkEnds ==
    /\ run.walks => At({"judge", "restore"}) /\ run.was # None
    /\ At({"walk"}) \/ run.walks => journal[MaxAttempt] = None

BInv ==
    /\ IInv
    /\ doubtful \subseteq Id
    /\ AttemptsInOrder
    /\ WalkedOver
    /\ JournalFirst
    /\ WalkEnds
    /\ ReadableIsWhole
=============================================================================
