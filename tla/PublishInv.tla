----------------------------- MODULE PublishInv -----------------------------
(* The inductive invariant of PublishTransaction: what each statement of a  *)
(* running call finds at the targets the user left alone.                   *)
EXTENDS PublishTransaction

(* the first n targets hold their outputs and the others their originals    *)
ReplacedTo(n) ==
    \A k \in Index \ edited :
        file[k] = IF k <= n THEN Replacement[k] ELSE Original[k]
MarkedTo(n) ==
    \A i \in Index : run.writes[i] = IF i <= n THEN "replaced" ELSE "pending"

(* the targets before the current write, those up to it, and those that may *)
(* be replaced when the current one failed                                  *)
DoneBefore == ReplacedTo(run.k - 1) /\ MarkedTo(run.k - 1)
DoneThis == ReplacedTo(run.k) /\ MarkedTo(run.k)
MaybeDone == /\ ReplacedTo(run.k) \/ ReplacedTo(run.k - 1)
             /\ MarkedTo(run.k - 1)

(* what has been judged is restored, or recorded for manual recovery; the   *)
(* except clause starts from targets that all hold their outputs            *)
PutBack ==
    \A k \in Index \ edited :
        /\ k > run.k => \/ file[k] = Original[k]
                        \/ run.writes[k] = "manual-recovery"
        /\ k <= run.k /\ run.was = None => file[k] = Replacement[k]

At(stages) == run.at \in stages
Calling == At({"prepare", "replace", "mark", "caught", "judge", "restore", "walk"})

CallInv ==
    /\ Calling => run.id \in Id /\ answer = None
    /\ At({"prepare", "replace", "mark", "caught"}) => run.was = None
    /\ At({"replace", "mark", "caught", "restore"}) => run.k \in Index
    /\ At({"prepare"}) => ReplacedTo(0) /\ MarkedTo(0)
    /\ At({"replace"}) => DoneBefore
    /\ At({"mark"}) => DoneThis
    /\ At({"caught"}) => MaybeDone
    /\ At({"judge", "restore"}) => PutBack
    /\ At({"restore"}) =>
            \/ run.raced
            \/ file[run.k] = Replacement[run.k]
            \/ file[run.k] = None /\ Original[run.k] = None

(* The whole invariant: types, the running call, and what the last call     *)
(* answered.                                                                *)
IInv == TypeOK /\ CallInv /\ AnswerIsTrue
=============================================================================
