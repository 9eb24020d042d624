--------------------------- MODULE PublishProofs ---------------------------
(* Machine-checked proofs about PublishTransaction and about ProposalBatch. *)
(* What comes first uses none of the assumptions of the batch.              *)
EXTENDS BatchInv, TLAPS

-----------------------------------------------------------------------------
(* Proofs about PublishTransaction, for any number of writes, any           *)
(* transaction IDs used in any order, and any faults, crashes and edits.    *)
USE DEF Index, At, Calling

(* The publications the code writes can be constructed.                     *)
LEMMA PreparedConsistent ==
    Prepared \in Publication /\ Consistent(Prepared)
BY WritesAssumption DEF Prepared, Publication, Consistent, WriteState

LEMMA ProgressConsistent ==
    ASSUME TypeOK, run.k \in Index, MarkedTo(run.k)
    PROVE  Progress \in Publication /\ Consistent(Progress)
<1>1. run.writes \in [Index -> WriteState]
  BY DEF TypeOK
<1>2. Progress \in Publication
  BY <1>1 DEF Progress, Publication
<1>3. CASE run.k = N
  <2>1. Progress.state = "committed" /\ Progress.writes = run.writes
    BY <1>3 DEF Progress
  <2>2. \A i \in Index : run.writes[i] = "replaced"
    BY <1>3, WritesAssumption DEF MarkedTo
  <2> QED
    BY <1>2, <2>1, <2>2 DEF Consistent
<1>4. CASE run.k # N
  <2>1. Progress.state = "replacing" /\ Progress.writes = run.writes
    BY <1>4 DEF Progress
  <2>2. OrderedAs("replaced", Progress.writes)
    BY <2>1 DEF MarkedTo, OrderedAs
  <2> QED
    BY <1>2, <2>1, <2>2 DEF Consistent
<1> QED
  BY <1>2, <1>3, <1>4

LEMMA OutcomeTyped ==
    ASSUME TypeOK
    PROVE  Outcome \in Publication
BY DEF TypeOK, Outcome, Publication

(* Writing a journal keeps the journals typed.                              *)
LEMMA JournalTyped ==
    ASSUME TypeOK, NEW id \in Id, NEW pub \in Publication, Consistent(pub),
           journal' = [journal EXCEPT ![id] = pub]
    PROVE  /\ journal' \in [Id -> Publication \cup {None}]
           /\ \A i \in Id : journal'[i] # None => Consistent(journal'[i])
BY DEF TypeOK

(* A fault is taken from the budget.                                        *)
LEMMA FaultTyped ==
    ASSUME TypeOK, NEW faults, NEW how, Fails(faults, how)
    PROVE  left' \in [faults : Nat, crashes : Nat, edits : Nat]
BY DEF TypeOK, Fails

LEMMA WrittenTyped ==
    ASSUME TypeOK, run.id \in Id, NEW pub \in Publication, Consistent(pub),
           JournalWritten(pub) \/ JournalFailed(pub)
    PROVE  /\ journal' \in [Id -> Publication \cup {None}]
           /\ \A i \in Id : journal'[i] # None => Consistent(journal'[i])
           /\ left' \in [faults : Nat, crashes : Nat, edits : Nat]
<1>1. journal' = journal \/ journal' = [journal EXCEPT ![run.id] = pub]
  BY DEF JournalWritten, JournalFailed
<1>2. left' \in [faults : Nat, crashes : Nat, edits : Nat]
  BY FaultTyped DEF JournalWritten, JournalFailed, TypeOK
<1> QED
  BY <1>1, <1>2, JournalTyped DEF TypeOK

LEMMA IdleTyped ==
    /\ Idle \in [at : {"idle", "walk", "prepare", "replace", "mark", "caught",
                       "judge", "restore"},
                 id : Id \cup {None}, k : 0..N, writes : [Index -> WriteState],
                 was : {None, "prepared", "replacing"}, raced : BOOLEAN,
                 walks : BOOLEAN]
    /\ Idle.at = "idle"
BY WritesAssumption DEF Idle, WriteState

-----------------------------------------------------------------------------
LEMMA InitIInv == Init => IInv
<1> SUFFICES ASSUME Init PROVE IInv
  OBVIOUS
<1>1. TypeOK
  BY IdleTyped, WritesAssumption, BoundsAssumption DEF Init, TypeOK
<1>2. CallInv
  BY IdleTyped DEF Init, CallInv
<1>3. AnswerIsTrue
  BY AnswersAreNotNone DEF Init, AnswerIsTrue
<1> QED
  BY <1>1, <1>2, <1>3 DEF IInv

(* A call that has just returned is idle, so only its answer is left to     *)
(* justify.                                                                 *)
LEMMA Returned ==
    ASSUME IInv, NEW a, Return(a),
           a \in {None, "committed", "compensated", "manual-recovery",
                  "refused", "raised"},
           /\ file' \in [Index -> Content \cup {None}]
           /\ journal' \in [Id -> Publication \cup {None}]
           /\ \A i \in Id : journal'[i] # None => Consistent(journal'[i])
           /\ edited' \subseteq Index
           /\ left' \in [faults : Nat, crashes : Nat, edits : Nat],
           AnswerIsTrue'
    PROVE  IInv'
<1>1. run' = Idle /\ answer' = a
  BY DEF Return
<1>2. TypeOK'
  BY <1>1, IdleTyped DEF TypeOK
<1>3. CallInv'
  BY <1>1, IdleTyped DEF CallInv
<1> QED
  BY <1>2, <1>3 DEF IInv

(* The answers that claim nothing about the targets.                        *)
LEMMA NothingClaimed ==
    ASSUME answer' \in {None, "manual-recovery", "refused", "raised"}
    PROVE  AnswerIsTrue'
BY AnswersAreNotNone DEF AnswerIsTrue

LEMMA BeginFreshIInv ==
    ASSUME IInv, NEW id \in Id, NEW walks \in BOOLEAN, BeginFresh(id, walks)
    PROVE  IInv'
<1>1. CASE file = Original
  <2>1. /\ run' = [Idle EXCEPT !.at = "prepare", !.id = id, !.walks = walks]
        /\ answer' = None /\ edited' = {}
        /\ UNCHANGED <<file, journal, left>>
    BY <1>1 DEF BeginFresh
  <2>2. TypeOK'
    BY <2>1, IdleTyped DEF IInv, TypeOK
  <2>3. run'.at = "prepare" /\ run'.id = id /\ run'.was = None
    BY <2>1 DEF Idle
  <2>4. ReplacedTo(0)' /\ MarkedTo(0)'
    BY <1>1, <2>1 DEF ReplacedTo, MarkedTo, Idle
  <2>5. CallInv'
    BY <2>1, <2>3, <2>4 DEF CallInv
  <2> QED
    BY <2>1, <2>2, <2>5, NothingClaimed DEF IInv
<1>2. CASE file # Original
  BY <1>2, Returned, NothingClaimed DEF BeginFresh, IInv, TypeOK, Return
<1> QED
  BY <1>1, <1>2

LEMMA RerunIInv ==
    ASSUME IInv, NEW id \in Id, Rerun(id)
    PROVE  IInv'
<1>1. CASE journal[id].state = "committed" /\ file = Replacement
  <2>1. Return("committed") /\ UNCHANGED <<file, journal, edited, left>>
    BY <1>1 DEF Rerun
  <2>2. AnswerIsTrue'
    BY <1>1, <2>1 DEF Return, AnswerIsTrue
  <2> QED
    BY <2>1, <2>2, Returned DEF IInv, TypeOK
<1>2. CASE ~(journal[id].state = "committed" /\ file = Replacement)
  <2>1. Return("refused") /\ UNCHANGED <<file, journal, edited, left>>
    BY <1>2 DEF Rerun
  <2> QED
    BY <2>1, NothingClaimed, Returned DEF IInv, TypeOK, Return
<1> QED
  BY <1>1, <1>2

LEMMA BeginReconcileIInv ==
    ASSUME IInv, NEW id \in Id, NEW walks \in BOOLEAN,
           BeginReconcile(id, walks)
    PROVE  IInv'
<1>1. journal[id] \in Publication /\ journal[id].state \in {"prepared", "replacing"}
  BY DEF BeginReconcile, Nonterminal, Terminal, IInv, TypeOK, Publication
<1>2. /\ run' = [Idle EXCEPT !.at = "judge", !.id = id, !.k = N,
                             !.writes = journal[id].writes,
                             !.was = journal[id].state, !.walks = walks]
      /\ answer' = None
      /\ UNCHANGED <<file, journal, edited, left>>
  BY DEF BeginReconcile
<1>3. /\ run'.at = "judge" /\ run'.id = id /\ run'.k = N
      /\ run'.was = journal[id].state
  BY <1>2 DEF Idle
<1>4. TypeOK'
  <2>1. journal[id].writes \in [Index -> WriteState] /\ N \in 0..N
    BY <1>1, WritesAssumption DEF Publication
  <2> QED
    BY <1>1, <1>2, <2>1, IdleTyped DEF IInv, TypeOK
<1>5. PutBack'
  BY <1>1, <1>3, WritesAssumption, AnswersAreNotNone DEF PutBack
<1>6. CallInv'
  BY <1>2, <1>3, <1>5 DEF CallInv
<1> QED
  BY <1>2, <1>4, <1>6, NothingClaimed DEF IInv

-----------------------------------------------------------------------------
LEMMA PrepareIInv == IInv /\ Prepare => IInv'
<1> SUFFICES ASSUME IInv, Prepare PROVE IInv'
  OBVIOUS
<1>1. /\ run.at = "prepare" /\ run.id \in Id /\ run.was = None
      /\ answer = None /\ ReplacedTo(0)
      /\ UNCHANGED <<file, edited>>
  BY DEF Prepare, IInv, CallInv
<1>2. /\ journal' \in [Id -> Publication \cup {None}]
      /\ \A i \in Id : journal'[i] # None => Consistent(journal'[i])
      /\ left' \in [faults : Nat, crashes : Nat, edits : Nat]
  BY <1>1, PreparedConsistent, WrittenTyped DEF Prepare, IInv
<1>3. CASE run' = [run EXCEPT !.at = "replace", !.k = 1] /\ UNCHANGED answer
  <2>1. TypeOK'
    <3>1. 1 \in 0..N
      BY WritesAssumption
    <3> QED
      BY <1>1, <1>2, <1>3, <3>1 DEF IInv, TypeOK
  <2>2. /\ run'.at = "replace" /\ run'.id = run.id /\ run'.k = 1
        /\ run'.was = run.was /\ run'.writes = run.writes
    BY <1>3 DEF IInv, TypeOK
  <2>3. DoneBefore'
    BY <1>1, <2>2 DEF IInv, CallInv, MarkedTo, ReplacedTo, DoneBefore
  <2>4. CallInv'
    BY <1>1, <1>3, <2>2, <2>3, WritesAssumption DEF CallInv
  <2> QED
    BY <1>1, <1>3, <2>1, <2>4, NothingClaimed DEF IInv
<1>4. CASE Return("raised")
  BY <1>1, <1>2, <1>4, Returned, NothingClaimed DEF IInv, TypeOK, Return
<1> QED
  BY <1>3, <1>4 DEF Prepare

(* Writing target k after the targets below it.                             *)
LEMMA OneMoreReplaced ==
    ASSUME file \in [Index -> Content \cup {None}], NEW CONSTANT k \in Index,
           ReplacedTo(k - 1), edited' = edited,
           file' = [file EXCEPT ![k] = Replacement[k]]
    PROVE  ReplacedTo(k)'
<1> SUFFICES ASSUME NEW t \in Index \ edited
             PROVE  file'[t] = IF t <= k THEN Replacement[t] ELSE Original[t]
  BY DEF ReplacedTo
<1>1. file[t] = IF t <= k - 1 THEN Replacement[t] ELSE Original[t]
  BY DEF ReplacedTo
<1>2. file'[t] = IF t = k THEN Replacement[k] ELSE file[t]
  OBVIOUS
<1>3. t \in Int /\ k \in Int
  BY WritesAssumption
<1> QED
  BY <1>1, <1>2, <1>3

LEMMA ReplaceIInv == IInv /\ Replace => IInv'
<1> SUFFICES ASSUME IInv, Replace PROVE IInv'
  OBVIOUS
<1> DEFINE k == run.k
<1>1. /\ run.at = "replace" /\ run.id \in Id /\ run.was = None
      /\ answer = None /\ k \in Index
      /\ ReplacedTo(k - 1) /\ MarkedTo(k - 1)
      /\ UNCHANGED <<journal, answer, edited>>
  BY DEF Replace, IInv, CallInv, DoneBefore
<1>2. CASE /\ file' = [file EXCEPT ![k] = Replacement[k]]
           /\ run' = [run EXCEPT !.at = "mark", !.writes[k] = "replaced"]
           /\ UNCHANGED left
  <2>1. TypeOK'
    BY <1>1, <1>2, WritesAssumption DEF IInv, TypeOK, WriteState
  <2>2. /\ run'.at = "mark" /\ run'.id = run.id /\ run'.k = k
        /\ run'.was = run.was
        /\ run'.writes = [run.writes EXCEPT ![k] = "replaced"]
    BY <1>2 DEF IInv, TypeOK
  <2>3. ReplacedTo(run.k)'
    <3> PICK n \in Index : n = run.k
      BY <1>1
    <3>1. ReplacedTo(n)'
      BY <1>1, <1>2, OneMoreReplaced DEF IInv, TypeOK
    <3> QED
      BY <2>2, <3>1
  <2>4. MarkedTo(run.k)'
    <3>1. run.writes \in [Index -> WriteState]
      BY DEF IInv, TypeOK
    <3>2. \A i \in Index :
              run.writes[i] = IF i <= k - 1 THEN "replaced" ELSE "pending"
      BY <1>1 DEF MarkedTo
    <3>3. ASSUME NEW i \in Index
          PROVE  run'.writes[i] = IF i <= k THEN "replaced" ELSE "pending"
      <4>1. i \in Int /\ k \in Int
        BY <1>1, WritesAssumption
      <4>2. run'.writes[i] = IF i = k THEN "replaced" ELSE run.writes[i]
        BY <1>1, <2>2, <3>1
      <4>3. run.writes[i] = IF i <= k - 1 THEN "replaced" ELSE "pending"
        BY <3>2
      <4> HIDE DEF k
      <4> QED
        BY <4>1, <4>2, <4>3
    <3> QED
      BY <2>2, <3>3 DEF MarkedTo
  <2>5. CallInv'
    BY <1>1, <2>2, <2>3, <2>4 DEF CallInv, DoneThis
  <2> QED
    BY <1>1, <2>1, <2>5, NothingClaimed DEF IInv
<1>3. CASE TargetFailed(k, Replacement[k]) /\ run' = [run EXCEPT !.at = "caught"]
  <2>1. \/ file' = file
        \/ file' = [file EXCEPT ![k] = Replacement[k]]
    BY <1>3 DEF TargetFailed
  <2>2. left' \in [faults : Nat, crashes : Nat, edits : Nat]
    BY <1>3, FaultTyped DEF TargetFailed, IInv
  <2>3. TypeOK'
    <3>1. file' \in [Index -> Content \cup {None}]
      <4>1. file \in [Index -> Content \cup {None}]
        BY DEF IInv, TypeOK
      <4>2. Replacement[k] \in Content
        BY <1>1, WritesAssumption
      <4> HIDE DEF k
      <4> QED
        BY <2>1, <4>1, <4>2
    <3> QED
      BY <1>1, <1>3, <2>2, <3>1 DEF IInv, TypeOK
  <2>4. /\ run'.at = "caught" /\ run'.id = run.id /\ run'.k = k
        /\ run'.was = run.was /\ run'.writes = run.writes
    BY <1>3 DEF IInv, TypeOK
  <2>5. ReplacedTo(run.k)' \/ ReplacedTo(run.k - 1)'
    <3> PICK n \in Index : n = run.k
      BY <1>1
    <3>1. CASE file' = file
      <4>1. ReplacedTo(n - 1)'
        BY <1>1, <3>1 DEF ReplacedTo
      <4> QED
        BY <2>4, <4>1
    <3>2. CASE file' = [file EXCEPT ![n] = Replacement[n]]
      <4>1. ReplacedTo(n)'
        BY <1>1, <3>2, OneMoreReplaced DEF IInv, TypeOK
      <4> QED
        BY <2>4, <4>1
    <3> QED
      BY <2>1, <3>1, <3>2
  <2>6. MaybeDone'
    BY <1>1, <2>4, <2>5 DEF MarkedTo, MaybeDone
  <2>7. CallInv'
    BY <1>1, <2>4, <2>5, <2>6 DEF CallInv
  <2> QED
    BY <1>1, <2>3, <2>7, NothingClaimed DEF IInv
<1> QED
  BY <1>2, <1>3 DEF Replace

LEMMA MarkIInv == IInv /\ Mark => IInv'
<1> SUFFICES ASSUME IInv, Mark PROVE IInv'
  OBVIOUS
<1> DEFINE k == run.k
<1>1. /\ run.at = "mark" /\ run.id \in Id /\ run.was = None
      /\ answer = None /\ k \in Index
      /\ ReplacedTo(k) /\ MarkedTo(k)
      /\ UNCHANGED <<file, edited>>
  BY DEF Mark, IInv, CallInv, DoneThis
<1>2. /\ journal' \in [Id -> Publication \cup {None}]
      /\ \A i \in Id : journal'[i] # None => Consistent(journal'[i])
      /\ left' \in [faults : Nat, crashes : Nat, edits : Nat]
  BY <1>1, ProgressConsistent, WrittenTyped DEF Mark, IInv
<1>3. CASE k = N /\ Return("committed")
  <2>1. AnswerIsTrue'
    BY <1>1, <1>3, WritesAssumption DEF AnswerIsTrue, ReplacedTo, Return
  <2> QED
    BY <1>1, <1>2, <1>3, <2>1, Returned DEF IInv, TypeOK
<1>4. CASE /\ k # N
           /\ run' = [run EXCEPT !.at = "replace", !.k = @ + 1]
           /\ UNCHANGED answer
  <2>1. k + 1 \in Index /\ k + 1 \in 0..N
    BY <1>1, <1>4, WritesAssumption
  <2>2. TypeOK'
    BY <1>1, <1>2, <1>4, <2>1 DEF IInv, TypeOK
  <2>3. /\ run'.at = "replace" /\ run'.id = run.id /\ run'.k = k + 1
        /\ run'.was = run.was /\ run'.writes = run.writes
    BY <1>4 DEF IInv, TypeOK
  <2>4. DoneBefore'
    BY <1>1, <2>3, WritesAssumption DEF ReplacedTo, MarkedTo, DoneBefore
  <2>5. CallInv'
    BY <1>1, <1>4, <2>1, <2>3, <2>4 DEF CallInv
  <2> QED
    BY <1>1, <1>4, <2>2, <2>5, NothingClaimed DEF IInv
<1>5. CASE run' = [run EXCEPT !.at = "judge"] /\ UNCHANGED answer
  <2>1. TypeOK'
    BY <1>1, <1>2, <1>5 DEF IInv, TypeOK
  <2>2. /\ run'.at = "judge" /\ run'.id = run.id /\ run'.k = k
        /\ run'.was = run.was /\ run'.writes = run.writes
    BY <1>5 DEF IInv, TypeOK
  <2>3. PutBack'
    BY <1>1, <2>2, WritesAssumption DEF PutBack, ReplacedTo
  <2>4. CallInv'
    BY <1>1, <1>5, <2>2, <2>3 DEF CallInv
  <2> QED
    BY <1>1, <1>5, <2>1, <2>4, NothingClaimed DEF IInv
<1> QED
  BY <1>3, <1>4, <1>5 DEF Mark

LEMMA CaughtIInv == IInv /\ Caught => IInv'
<1> SUFFICES ASSUME IInv, Caught PROVE IInv'
  OBVIOUS
<1> DEFINE k == run.k
           n == IF file[k] = Replacement[k] THEN k ELSE k - 1
<1>1. /\ run.at = "caught" /\ run.id \in Id /\ run.was = None
      /\ answer = None /\ k \in Index
      /\ ReplacedTo(k) \/ ReplacedTo(k - 1)
      /\ UNCHANGED <<file, journal, answer, edited, left>>
      /\ run' = [run EXCEPT !.at = "judge", !.k = n]
  BY DEF Caught, IInv, CallInv, MaybeDone
<1>2. n \in 0..N
  BY <1>1, WritesAssumption
<1>3. TypeOK'
  BY <1>1, <1>2 DEF IInv, TypeOK
<1>4. run'.at = "judge" /\ run'.id = run.id /\ run'.k = n /\ run'.was = run.was
  BY <1>1 DEF IInv, TypeOK
<1>5. PutBack'
  <2>1. CASE file[k] = Replacement[k]
    BY <1>1, <1>4, <2>1, WritesAssumption DEF PutBack, ReplacedTo
  <2>2. CASE file[k] # Replacement[k]
    BY <1>1, <1>4, <2>2, WritesAssumption DEF PutBack, ReplacedTo
  <2> QED
    BY <2>1, <2>2
<1>6. CallInv'
  BY <1>1, <1>4, <1>5 DEF CallInv
<1> QED
  BY <1>1, <1>3, <1>6, NothingClaimed DEF IInv

-----------------------------------------------------------------------------
(* A target that has been judged leaves PutBack true of the next one down.  *)
LEMMA JudgeIInv == IInv /\ Judge => IInv'
<1> SUFFICES ASSUME IInv, Judge PROVE IInv'
  OBVIOUS
<1> DEFINE k == run.k
           found == IF run.was = None THEN Compensating(k) ELSE Reconciling(k)
<1>1. /\ run.at = "judge" /\ run.id \in Id /\ answer = None /\ PutBack
      /\ k > 0 /\ k \in Index
      /\ UNCHANGED <<file, journal, answer, edited, left>>
  BY WritesAssumption DEF Judge, IInv, CallInv, TypeOK
<1>2. found \in {"restore", "keep", "diverged"}
  BY DEF Compensating, Reconciling
<1>3. CASE found = "restore"
  <2>1. run' = [run EXCEPT !.at = "restore", !.raced = FALSE]
    BY <1>3 DEF Judge
  <2>2. TypeOK'
    BY <1>1, <2>1 DEF IInv, TypeOK
  <2>3. /\ run'.at = "restore" /\ run'.id = run.id /\ run'.k = k
        /\ run'.was = run.was /\ run'.writes = run.writes
    BY <2>1 DEF IInv, TypeOK
  <2>4. PutBack'
    BY <1>1, <2>3 DEF PutBack
  <2>5. file[k] = Replacement[k] \/ (file[k] = None /\ Original[k] = None)
    BY <1>3 DEF Compensating, Reconciling
  <2>6. CallInv'
    BY <1>1, <2>3, <2>4, <2>5 DEF CallInv
  <2> QED
    BY <1>1, <2>2, <2>6, NothingClaimed DEF IInv
<1>4. CASE found # "restore"
  <2> DEFINE state == IF found = "keep" THEN Kept(run.writes[k])
                                        ELSE "manual-recovery"
  <2>1. run' = [run EXCEPT !.k = k - 1, !.writes[k] = state]
    <3>1. CASE found = "keep"
      BY <3>1 DEF Judge
    <3>2. CASE found = "diverged"
      BY <3>2 DEF Judge
    <3> QED
      BY <1>2, <1>4, <3>1, <3>2
  <2>2. state \in WriteState /\ k - 1 \in 0..N
    BY <1>1, WritesAssumption DEF Kept, WriteState, IInv, TypeOK
  <2>3. TypeOK'
    BY <1>1, <2>1, <2>2 DEF IInv, TypeOK
  <2>4. /\ run'.at = "judge" /\ run'.id = run.id /\ run'.k = k - 1
        /\ run'.was = run.was /\ run'.writes = [run.writes EXCEPT ![k] = state]
    BY <1>1, <2>1 DEF IInv, TypeOK
  <2>5. file[k] = Original[k] \/ state = "manual-recovery"
    BY <1>2, <1>4 DEF Compensating, Reconciling
  <2>6. PutBack'
    BY <1>1, <2>4, <2>5, WritesAssumption DEF PutBack, IInv, TypeOK
  <2>7. CallInv'
    BY <1>1, <2>4, <2>6 DEF CallInv
  <2> QED
    BY <1>1, <2>3, <2>7, NothingClaimed DEF IInv
<1> QED
  BY <1>3, <1>4

LEMMA RestoreIInv == IInv /\ Restore => IInv'
<1> SUFFICES ASSUME IInv, Restore PROVE IInv'
  OBVIOUS
<1> DEFINE k == run.k
<1>1. /\ run.at = "restore" /\ run.id \in Id /\ answer = None /\ PutBack
      /\ k \in Index
      /\ UNCHANGED <<journal, answer, edited>>
  BY DEF Restore, IInv, CallInv
<1>2. PICK state \in {"compensated", "manual-recovery"} :
        /\ run' = [run EXCEPT !.at = "judge", !.k = k - 1,
                              !.writes[k] = state, !.raced = FALSE]
        /\ file' = file \/ file' = [file EXCEPT ![k] = Original[k]]
        /\ state = "compensated" => file' = [file EXCEPT ![k] = Original[k]]
        /\ left' \in [faults : Nat, crashes : Nat, edits : Nat]
  <2> DEFINE After(state) == run' = [run EXCEPT !.at = "judge", !.k = k - 1,
                                                !.writes[k] = state,
                                                !.raced = FALSE]
  <2>1. CASE /\ file' = [file EXCEPT ![k] = Original[k]]
             /\ UNCHANGED left /\ After("compensated")
    BY <2>1 DEF IInv, TypeOK
  <2>2. CASE UNCHANGED <<file, left>> /\ After("manual-recovery")
    BY <2>2 DEF IInv, TypeOK
  <2>3. CASE TargetFailed(k, Original[k]) /\ After("manual-recovery")
    <3>1. file' = file \/ file' = [file EXCEPT ![k] = Original[k]]
      BY <2>3 DEF TargetFailed
    <3>2. left' \in [faults : Nat, crashes : Nat, edits : Nat]
      BY <2>3, FaultTyped DEF TargetFailed, IInv
    <3> QED
      BY <2>3, <3>1, <3>2
  <2>4. \/ /\ file' = [file EXCEPT ![k] = Original[k]]
           /\ UNCHANGED left /\ After("compensated")
        \/ UNCHANGED <<file, left>> /\ After("manual-recovery")
        \/ TargetFailed(k, Original[k]) /\ After("manual-recovery")
    BY DEF Restore
  <2> QED
    BY <2>1, <2>2, <2>3, <2>4
<1>3. k - 1 \in 0..N /\ state \in WriteState
  BY <1>1, WritesAssumption DEF WriteState
<1>4. file' \in [Index -> Content \cup {None}]
  <2>1. file \in [Index -> Content \cup {None}]
    BY DEF IInv, TypeOK
  <2>2. Original[k] \in Content \cup {None}
    BY <1>1, WritesAssumption
  <2>3. file' = file \/ file' = [file EXCEPT ![k] = Original[k]]
    BY <1>2
  <2> QED
    BY <2>1, <2>2, <2>3
<1>5. TypeOK'
  BY <1>1, <1>2, <1>3, <1>4 DEF IInv, TypeOK
<1>6. /\ run'.at = "judge" /\ run'.id = run.id /\ run'.k = k - 1
      /\ run'.was = run.was /\ run'.writes = [run.writes EXCEPT ![k] = state]
  BY <1>1, <1>2 DEF IInv, TypeOK
<1>7. PutBack'
  <2> SUFFICES ASSUME NEW t \in Index, t \notin edited
               PROVE  /\ t > k - 1 => file'[t] = Original[t]
                                        \/ run'.writes[t] = "manual-recovery"
                      /\ t <= k - 1 /\ run.was = None
                            => file'[t] = Replacement[t]
    BY <1>1, <1>6 DEF PutBack
  <2>1. CASE t = k
    BY <1>1, <1>2, <1>6, <2>1, WritesAssumption DEF IInv, TypeOK
  <2>2. CASE t # k
    <3>1. file'[t] = file[t] /\ run'.writes[t] = run.writes[t]
      BY <1>1, <1>2, <1>6, <2>2 DEF IInv, TypeOK
    <3> QED
      BY <1>1, <2>2, <3>1, WritesAssumption DEF PutBack
  <2> QED
    BY <2>1, <2>2
<1>8. CallInv'
  BY <1>1, <1>6, <1>7 DEF CallInv
<1> QED
  BY <1>1, <1>5, <1>8, NothingClaimed DEF IInv

(* When everything was judged and nothing needs manual recovery, every      *)
(* target the user left alone holds its original.                           *)
LEMMA AllPutBack ==
    ASSUME IInv, run.at = "judge", run.k = 0, Outcome.state = "compensated"
    PROVE  \A t \in Index \ edited : file[t] = Original[t]
BY WritesAssumption DEF IInv, CallInv, PutBack, Outcome

LEMMA FinishIInv == IInv /\ Finish => IInv'
<1> SUFFICES ASSUME IInv, Finish PROVE IInv'
  OBVIOUS
<1>1. /\ run.at = "judge" /\ run.k = 0 /\ run.id \in Id /\ answer = None
      /\ UNCHANGED <<file, edited>>
      /\ Outcome.state \in {"compensated", "manual-recovery"}
  BY DEF Finish, IInv, CallInv, Outcome
<1>2. /\ journal' \in [Id -> Publication \cup {None}]
      /\ \A i \in Id : journal'[i] # None => Consistent(journal'[i])
      /\ left' \in [faults : Nat, crashes : Nat, edits : Nat]
  <2>1. Outcome \in Publication
    BY OutcomeTyped DEF IInv
  <2>2. CASE Consistent(Outcome) /\ (JournalWritten(Outcome) \/ JournalFailed(Outcome))
    BY <1>1, <2>1, <2>2, WrittenTyped DEF IInv
  <2>3. CASE UNCHANGED <<journal, left>>
    BY <2>3 DEF IInv, TypeOK
  <2> QED
    BY <2>2, <2>3 DEF Finish
<1>3. CASE Return(Outcome.state)
  <2>1. AnswerIsTrue'
    BY <1>1, <1>3, AllPutBack, AnswersAreNotNone DEF Return, AnswerIsTrue
  <2> QED
    BY <1>1, <1>2, <1>3, <2>1, Returned DEF IInv, TypeOK
<1>4. CASE Return("refused") \/ Return("raised")
  BY <1>1, <1>2, <1>4, Returned, NothingClaimed DEF IInv, TypeOK, Return
<1>5. CASE run' = [Idle EXCEPT !.at = "walk", !.id = run.id] /\ UNCHANGED answer
  <2>1. TypeOK'
    BY <1>1, <1>2, <1>5, IdleTyped DEF IInv, TypeOK
  <2>2. run'.at = "walk" /\ run'.id = run.id
    BY <1>5 DEF Idle
  <2>3. CallInv'
    BY <1>1, <1>5, <2>2 DEF CallInv
  <2> QED
    BY <1>1, <1>5, <2>1, <2>3, NothingClaimed DEF IInv
<1> QED
  BY <1>3, <1>4, <1>5 DEF Finish

LEMMA CrashIInv == IInv /\ Crash => IInv'
<1> SUFFICES ASSUME IInv, Crash PROVE IInv'
  OBVIOUS
<1>1. Return(None) /\ UNCHANGED <<file, journal, edited>>
      /\ left' \in [faults : Nat, crashes : Nat, edits : Nat]
  BY DEF Crash, IInv, TypeOK
<1> QED
  BY <1>1, Returned, NothingClaimed DEF IInv, TypeOK, Return

LEMMA EditIInv ==
    ASSUME IInv, NEW k \in Index, NEW text \in Content \cup {None},
           Edit(k, text)
    PROVE  IInv'
<1>1. /\ file' = [file EXCEPT ![k] = text]
      /\ edited' = edited \cup {k}
      /\ run' = [run EXCEPT !.raced = run.raced \/ (run.at = "restore" /\ run.k = k)]
      /\ UNCHANGED <<journal, answer>>
      /\ left' \in [faults : Nat, crashes : Nat, edits : Nat]
  BY DEF Edit, IInv, TypeOK
<1>2. \A t \in Index \ edited' : t \in Index \ edited /\ file'[t] = file[t]
  BY <1>1 DEF IInv, TypeOK
<1>3. (run.raced \/ (run.at = "restore" /\ run.k = k)) \in BOOLEAN
  BY DEF IInv, TypeOK
<1>4. TypeOK'
  BY <1>1, <1>3 DEF IInv, TypeOK
<1>5. /\ run'.at = run.at /\ run'.id = run.id /\ run'.k = run.k
      /\ run'.was = run.was /\ run'.writes = run.writes
      /\ run'.raced <=> run.raced \/ (run.at = "restore" /\ run.k = k)
  BY <1>1, <1>3 DEF IInv, TypeOK
<1>6. \A n : ReplacedTo(n) => ReplacedTo(n)'
  BY <1>2 DEF ReplacedTo
<1>7. \A n : MarkedTo(n) => MarkedTo(n)'
  BY <1>5 DEF MarkedTo
<1>8. /\ At({"prepare"}) => ReplacedTo(0)' /\ MarkedTo(0)'
      /\ At({"replace"}) => DoneBefore'
      /\ At({"mark"}) => DoneThis'
      /\ At({"caught"}) => MaybeDone'
  BY <1>5, <1>6, <1>7 DEF IInv, CallInv, DoneBefore, DoneThis, MaybeDone
<1>9. PutBack => PutBack'
  BY <1>2, <1>5 DEF PutBack
<1>10. At({"restore"}) =>
            \/ run'.raced
            \/ file'[run.k] = Replacement[run.k]
            \/ file'[run.k] = None /\ Original[run.k] = None
  <2>1. CASE run.k = k
    BY <1>5, <2>1
  <2>2. CASE run.k # k
    BY <1>1, <1>5, <2>2 DEF IInv, CallInv, TypeOK
  <2> QED
    BY <2>1, <2>2
<1>11. CallInv'
  BY <1>1, <1>5, <1>8, <1>9, <1>10 DEF IInv, CallInv
<1>12. AnswerIsTrue'
  BY <1>1, <1>2 DEF IInv, AnswerIsTrue
<1> QED
  BY <1>4, <1>11, <1>12 DEF IInv

LEMMA StutterIInv == IInv /\ UNCHANGED vars => IInv'
<1> SUFFICES ASSUME IInv, UNCHANGED vars PROVE IInv'
  OBVIOUS
<1>1. TypeOK'
  BY DEF IInv, TypeOK, vars
<1>2. CallInv'
  BY DEF IInv, CallInv, vars, DoneBefore, DoneThis, MaybeDone, ReplacedTo,
         MarkedTo, PutBack
<1>3. AnswerIsTrue'
  BY DEF IInv, AnswerIsTrue, vars
<1> QED
  BY <1>1, <1>2, <1>3 DEF IInv

(* Whoever makes the calls, the steps of a call and of its environment      *)
(* preserve the invariant.                                                  *)
LEMMA StepIInv == IInv /\ (Step \/ Environment) => IInv'
BY PrepareIInv, ReplaceIInv, MarkIInv, CaughtIInv, JudgeIInv, RestoreIInv,
   FinishIInv, CrashIInv, EditIInv DEF Step, Environment

LEMMA PublishIInv ==
    ASSUME IInv, NEW id \in Id, Publish(id)
    PROVE  IInv'
BY BeginFreshIInv, RerunIInv, BeginReconcileIInv DEF Publish

-----------------------------------------------------------------------------
(* IInv holds in every state: what a running publish_transaction finds at   *)
(* the targets is what its own memory says.                                 *)
THEOREM Inductive == Spec => []IInv
<1>1. IInv /\ [Next]_vars => IInv'
  BY StepIInv, PublishIInv, StutterIInv DEF Next
<1> QED
  BY InitIInv, <1>1, PTL DEF Spec

(* Every variable keeps its type, and only publications the constructor     *)
(* accepts are ever written to a journal.                                   *)
THEOREM TypeCorrect == Spec => []TypeOK
<1>1. IInv => TypeOK
  BY DEF IInv
<1> QED
  BY Inductive, <1>1, PTL

(* "committed" means all outputs and "compensated" all originals, for any   *)
(* sequence of calls, faults, crashes and edits.                            *)
THEOREM AnswersAreTrue == Spec => []AnswerIsTrue
<1>1. IInv => AnswerIsTrue
  BY DEF IInv
<1> QED
  BY Inductive, <1>1, PTL

(* Putting back overwrites only the transaction's own output.               *)
THEOREM RestoresOwn == Spec => RestoresOnlyItsOwn
<1> DEFINE Own == (run.at = "restore" /\ run'.at = "judge" /\ ~run.raced
                     /\ file' # file) => file[run.k] = Replacement[run.k]
<1>1. IInv /\ [Next]_vars => [Own]_vars
  <2> SUFFICES ASSUME IInv, [Next]_vars, run.at = "restore",
                      run'.at = "judge", ~run.raced, file' # file
               PROVE  file[run.k] = Replacement[run.k]
    OBVIOUS
  <2>1. run.k \in Index /\ \/ file[run.k] = Replacement[run.k]
                           \/ file[run.k] = None /\ Original[run.k] = None
    BY DEF IInv, CallInv
  <2>2. CASE Restore
    <3>1. file' = file \/ file' = [file EXCEPT ![run.k] = Original[run.k]]
      BY <2>2 DEF Restore, TargetFailed
    <3>2. file = [file EXCEPT ![run.k] = file[run.k]]
      BY <2>1 DEF IInv, TypeOK
    <3> QED
      BY <2>1, <3>1, <3>2
  <2>3. ~ \E k \in Index, text \in Content \cup {None} : Edit(k, text)
    BY DEF Edit, IInv, TypeOK
  <2> QED
    BY <2>2, <2>3, IdleTyped DEF Next, Step, Environment, Publish, Prepare,
       Replace, Mark, Caught, Judge, Finish, Crash, Return, vars
<1> QED
  BY Inductive, <1>1, PTL DEF RestoresOnlyItsOwn, Spec

-----------------------------------------------------------------------------
(* ProposalBatch, for any batch, any number of attempts, and any faults,    *)
(* crashes and edits.                                                       *)
LEMMA AttemptIsNat == Id \subseteq Nat
BY BatchAssumption

(* The calls of apply_proposals keep the invariant of the transaction.      *)
LEMMA ApplyIInv == IInv /\ Apply => IInv'
<1> SUFFICES ASSUME IInv, Apply PROVE IInv'
  OBVIOUS
<1>1. UNCHANGED <<file, journal, edited, left>>
  BY DEF Apply
<1>2. CASE Return("refused")
  BY <1>1, <1>2, Returned, NothingClaimed DEF IInv, TypeOK, Return
<1>3. CASE (\A p \in Proposal : Has(p, Replacement)) /\ Return("committed")
  <2>1. \A i \in Index : file[i] = Replacement[i]
    <3> SUFFICES ASSUME NEW i \in Index PROVE file[i] = Replacement[i]
      OBVIOUS
    <3> DEFINE p == (i + 1) \div 2
    <3>1. i \in Nat /\ i >= 1 /\ i <= N /\ N \in Nat /\ N % 2 = 0
      BY BatchAssumption, WritesAssumption
    <3>2. p \in 1..(N \div 2) /\ (i = 2 * p - 1 \/ i = 2 * p)
      BY <3>1
    <3> QED
      BY <1>3, <3>2 DEF Has, Proposal, Source, Record
  <2>2. AnswerIsTrue'
    BY <1>1, <1>3, <2>1 DEF Return, AnswerIsTrue
  <2> QED
    BY <1>1, <1>3, <2>2, Returned DEF IInv, TypeOK
<1>4. CASE run' = [Idle EXCEPT !.at = "walk", !.id = 1] /\ answer' = None
  <2>1. PICK first \in Id : first = 1
    BY BatchAssumption
  <2>2. TypeOK'
    <3>1. run' = [Idle EXCEPT !.at = "walk", !.id = first] /\ answer' = None
      BY <1>4, <2>1
    <3> QED
      BY <1>1, <3>1, IdleTyped DEF IInv, TypeOK
  <2>3. run'.at = "walk" /\ run'.id = 1
    BY <1>4 DEF Idle
  <2>4. CallInv'
    BY <1>1, <1>4, <2>1, <2>3 DEF CallInv
  <2> QED
    BY <1>4, <2>2, <2>4, NothingClaimed DEF IInv
<1> QED
  BY <1>2, <1>3, <1>4 DEF Apply

LEMMA WalkIInv == IInv /\ WalkEnds /\ Walk => IInv'
<1> SUFFICES ASSUME IInv, WalkEnds, Walk PROVE IInv'
  OBVIOUS
<1>1. /\ run.at = "walk" /\ run.id \in Id /\ answer = None
      /\ journal[MaxAttempt] = None
  BY DEF Walk, IInv, CallInv, WalkEnds
<1>2. CASE BeginFresh(run.id, FALSE)
  BY <1>1, <1>2, BeginFreshIInv
<1>3. CASE BeginReconcile(run.id, TRUE)
  BY <1>1, <1>3, BeginReconcileIInv
<1>4. CASE Return("refused") /\ UNCHANGED <<file, journal, edited, left>>
  BY <1>4, Returned, NothingClaimed DEF IInv, TypeOK, Return
<1>5. CASE /\ journal[run.id] # None
           /\ run' = [run EXCEPT !.id = run.id + 1] /\ UNCHANGED answer
           /\ UNCHANGED <<file, journal, edited, left>>
  <2>1. PICK next \in Id : next = run.id + 1
    BY <1>1, <1>5, BatchAssumption
  <2>2. TypeOK'
    <3>1. run' = [run EXCEPT !.id = next]
      BY <1>5, <2>1
    <3> QED
      BY <1>5, <3>1 DEF IInv, TypeOK
  <2>3. run'.at = "walk" /\ run'.id = run.id + 1
    BY <1>1, <1>5 DEF IInv, TypeOK
  <2>4. CallInv'
    BY <1>1, <1>5, <2>1, <2>3 DEF CallInv
  <2> QED
    BY <1>1, <1>5, <2>2, <2>4, NothingClaimed DEF IInv
<1> QED
  BY <1>2, <1>3, <1>4, <1>5 DEF Walk

LEMMA BatchIInv == IInv /\ WalkEnds /\ [BatchNext]_bvars => IInv'
BY ApplyIInv, WalkIInv, StepIInv, StutterIInv DEF BatchNext, BatchStep, bvars

(* A doubt lasts as long as the journal stays as it is.                     *)
LEMMA DoubtLasts ==
    ASSUME [BatchNext]_bvars, NEW id \in Id, InDoubt(id), journal'[id] = journal[id]
    PROVE  InDoubt(id)'
BY DEF BatchNext, bvars, InDoubt, Committed

-----------------------------------------------------------------------------
(* What can be said of the journals when every earlier attempt than id is   *)
(* compensated and id itself is not: no later attempt has a journal, and no *)
(* other one is unfinished or committed.                                    *)
LEMMA Frontier ==
    ASSUME TypeOK, AttemptsInOrder, NEW id \in Id,
           ~Compensated(id),
           \A a \in Id : a < id => Compensated(a)
    PROVE  /\ \A b \in Id : id < b => journal[b] = None
           /\ \A c \in Id \ {id} : ~Committed(c) /\ ~Blocks(c) /\ ~Nonterminal(c)
<1>1. \A b \in Id : id < b => journal[b] = None
  BY AttemptIsNat DEF AttemptsInOrder
<1>2. \A c \in Id \ {id} : Compensated(c) \/ journal[c] = None
  BY <1>1, AttemptIsNat
<1> QED
  BY <1>1, <1>2 DEF Compensated, Committed, Blocks, Nonterminal, Terminal

(* Writing the journal at the frontier keeps the attempts in order.         *)
LEMMA OrderKept ==
    ASSUME TypeOK, AttemptsInOrder, NEW id \in Id, NEW pub,
           ~Compensated(id),
           \A a \in Id : a < id => Compensated(a),
           journal' = [journal EXCEPT ![id] = pub]
    PROVE  AttemptsInOrder' /\ \A a \in Id : a < id => Compensated(a)'
<1>1. \A b \in Id : id < b => journal[b] = None
  BY Frontier
<1>2. \A c \in Id \ {id} : journal'[c] = journal[c]
  BY DEF TypeOK
<1>3. \A a \in Id : a < id => Compensated(a)'
  BY <1>2, AttemptIsNat DEF Compensated
<1>4. \A a, b \in Id : a < b /\ journal'[b] # None => Compensated(a)'
  <2> SUFFICES ASSUME NEW a \in Id, NEW b \in Id, a < b, journal'[b] # None
               PROVE  Compensated(a)'
    OBVIOUS
  <2>1. CASE b = id
    BY <1>3, <2>1
  <2>2. CASE b # id
    <3>1. b < id
      BY <1>1, <1>2, <2>2, AttemptIsNat
    <3> QED
      BY <1>3, <3>1, AttemptIsNat
  <2> QED
    BY <2>1, <2>2
<1> QED
  BY <1>3, <1>4 DEF AttemptsInOrder

(* Only an attempt at the frontier has its journal written.                 *)
LEMMA JournalWrites ==
    ASSUME BInv, BatchNext, journal' # journal
    PROVE  /\ run.id \in Id
           /\ run.at \in {"prepare", "mark", "judge"}
           /\ \/ journal[run.id] = None \/ Nonterminal(run.id)
              \/ InDoubt(run.id) /\ run.at = "judge"
           /\ ~Compensated(run.id)
           /\ \A a \in Id : a < run.id => Compensated(a)
           /\ \E pub : journal' = [journal EXCEPT ![run.id] = pub]
<1>1. Prepare \/ Mark \/ Finish
  BY DEF BatchNext, BatchStep, Apply, Walk, BeginFresh, BeginReconcile, Step,
         Environment, Replace, Caught, Judge, Restore, Crash, Edit
<1>2. run.at \in {"prepare", "mark", "judge"}
  BY <1>1 DEF Prepare, Mark, Finish
<1>3. \E pub : journal' = [journal EXCEPT ![run.id] = pub]
  BY <1>1 DEF Prepare, Mark, Finish, JournalWritten, JournalFailed
<1>4. /\ run.id \in Id /\ \A a \in Id : a < run.id => Compensated(a)
      /\ \/ journal[run.id] = None \/ Nonterminal(run.id)
         \/ InDoubt(run.id) /\ run.at = "judge"
  BY <1>2 DEF BInv, IInv, CallInv, WalkedOver, JournalFirst, TakenBack
<1>5. ~Compensated(run.id)
  BY <1>4 DEF Compensated, Nonterminal, Terminal, InDoubt, Committed
<1> QED
  BY <1>2, <1>3, <1>4, <1>5

LEMMA OrderStep ==
    ASSUME BInv, BatchNext
    PROVE  AttemptsInOrder' /\ \A a \in Id : Compensated(a) => Compensated(a)'
<1>1. CASE journal' = journal
  BY <1>1 DEF BInv, AttemptsInOrder, Compensated
<1>2. CASE journal' # journal
  <2>1. PICK pub : journal' = [journal EXCEPT ![run.id] = pub]
    BY <1>2, JournalWrites
  <2>2. /\ run.id \in Id /\ ~Compensated(run.id)
        /\ \A a \in Id : a < run.id => Compensated(a)
    BY <1>2, JournalWrites
  <2>3. AttemptsInOrder'
    BY <2>1, <2>2, OrderKept DEF BInv, IInv
  <2>4. \A a \in Id \ {run.id} : journal'[a] = journal[a]
    BY <2>1 DEF BInv, IInv, TypeOK
  <2> QED
    BY <2>2, <2>3, <2>4 DEF Compensated
<1> QED
  BY <1>1, <1>2

(* A judged target is restored or leads to the next one down.               *)
LEMMA JudgeLeads ==
    ASSUME IInv, Judge
    PROVE  /\ run.at = "judge" /\ run'.at \in {"judge", "restore"}
           /\ run'.id = run.id /\ run'.walks = run.walks /\ run'.was = run.was
<1> DEFINE found == IF run.was = None THEN Compensating(run.k)
                                      ELSE Reconciling(run.k)
<1>1. found \in {"restore", "keep", "diverged"}
  BY DEF Compensating, Reconciling
<1>2. CASE found = "restore"
  BY <1>2 DEF Judge, IInv, TypeOK
<1>3. CASE found = "keep"
  BY <1>3 DEF Judge, IInv, TypeOK
<1>4. CASE found = "diverged"
  BY <1>4 DEF Judge, IInv, TypeOK
<1> QED
  BY <1>1, <1>2, <1>3, <1>4

(* Where a step leads: the call ends, begins, goes on with its attempt, or  *)
(* passes over a compensated one.                                           *)
LEMMA WalkedStep ==
    ASSUME BInv, BatchNext
    PROVE  WalkedOver'
<1> DEFINE Running == run.at # "idle"
<1>1. run \in [at : {"idle", "walk", "prepare", "replace", "mark", "caught",
                     "judge", "restore"},
               id : Id \cup {None}, k : 0..N, writes : [Index -> WriteState],
               was : {None, "prepared", "replacing"}, raced : BOOLEAN,
               walks : BOOLEAN]
  BY DEF BInv, IInv, TypeOK
<1>2. \/ run'.at = "idle"
      \/ run'.at = "walk" /\ run'.id = 1
      \/ Running /\ run'.id = run.id
      \/ /\ run.at = "walk" /\ Compensated(run.id)
         /\ run'.id = run.id + 1
  <2>1. CASE Apply
    BY <2>1, IdleTyped DEF Apply, Return, Idle
  <2>2. CASE Walk
    <3>1. CASE BeginFresh(run.id, FALSE)
      BY <2>2, <3>1, IdleTyped DEF BeginFresh, Return, Idle, Walk
    <3>2. CASE BeginReconcile(run.id, TRUE)
      BY <2>2, <3>2 DEF BeginReconcile, Idle, Walk
    <3>3. CASE ~BeginFresh(run.id, FALSE) /\ ~BeginReconcile(run.id, TRUE)
      BY <1>1, <2>2, <3>3, IdleTyped DEF Walk, Return, Compensated
    <3> QED
      BY <3>1, <3>2, <3>3
  <2>3. CASE Prepare \/ Replace \/ Mark \/ Caught
    BY <1>1, <2>3, IdleTyped DEF Prepare, Replace, Mark, Caught, Return
  <2>4. CASE Judge
    BY <2>4, JudgeLeads DEF BInv
  <2>5. CASE Restore
    BY <1>1, <2>5 DEF Restore
  <2>6. CASE Finish
    BY <1>1, <2>6, IdleTyped DEF Finish, Return, Idle
  <2>7. CASE Environment
    BY <1>1, <2>7, IdleTyped DEF Environment, Crash, Edit, Return
  <2> QED
    BY <2>1, <2>2, <2>3, <2>4, <2>5, <2>6, <2>7 DEF BatchNext, BatchStep, Step
<1>3. Running => Calling /\ run.id \in Id
  BY <1>1 DEF BInv, IInv, CallInv
<1> QED
  <2> SUFFICES ASSUME run'.at # "idle", NEW a \in Id, a < run'.id
               PROVE  Compensated(a)'
    BY DEF WalkedOver
  <2>1. CASE run'.id = 1
    BY <2>1, BatchAssumption
  <2>2. CASE Running /\ run'.id = run.id
    BY <1>3, <2>2, OrderStep DEF BInv, WalkedOver
  <2>3. CASE /\ run.at = "walk" /\ Compensated(run.id)
             /\ run'.id = run.id + 1
    <3>1. a \in Nat /\ run.id \in Nat
      BY <1>3, <2>3, AttemptIsNat
    <3>2. a < run.id \/ a = run.id
      BY <2>3, <3>1
    <3>3. Compensated(a)
      BY <1>3, <2>3, <3>2 DEF BInv, WalkedOver, Compensated
    <3> QED
      BY <3>3, OrderStep
  <2> QED
    BY <1>2, <2>1, <2>2, <2>3

(* While a call is changing targets its journal is unfinished, or its       *)
(* commit is in doubt and taken back.                                       *)
LEMMA FirstStep ==
    ASSUME BInv, BatchNext
    PROVE  JournalFirst' /\ WalkEnds'
<1> USE DEF BInv, IInv
<1>1. /\ run \in [at : {"idle", "walk", "prepare", "replace", "mark", "caught",
                     "judge", "restore"},
               id : Id \cup {None}, k : 0..N, writes : [Index -> WriteState],
               was : {None, "prepared", "replacing"}, raced : BOOLEAN,
               walks : BOOLEAN]
      /\ journal \in [Id -> Publication \cup {None}]
      /\ Idle.at = "idle" /\ Idle.walks = FALSE
  BY DEF TypeOK, Idle
<1>2. CASE Apply
  <2>1. /\ run' = Idle \/ run' = [Idle EXCEPT !.at = "walk", !.id = 1]
        /\ journal' = journal /\ journal[MaxAttempt] = None
    BY <1>2 DEF Apply, Return
  <2>2. /\ run'.at \in {"idle", "walk"} /\ run'.walks = FALSE
    <3>1. CASE run' = Idle
      BY <1>1, <3>1
    <3>2. CASE run' = [Idle EXCEPT !.at = "walk", !.id = 1]
      BY <3>2 DEF Idle
    <3> QED
      BY <2>1, <3>1, <3>2
  <2> QED
    BY <2>1, <2>2 DEF JournalFirst, WalkEnds
<1>3. CASE Walk
  <2>1. CASE BeginFresh(run.id, FALSE)
    <3>1. /\ \/ run' = Idle
             \/ run' = [Idle EXCEPT !.at = "prepare", !.id = run.id,
                                    !.walks = FALSE]
          /\ journal'[run.id] = None
      BY <2>1 DEF BeginFresh, Return
    <3>2. /\ run'.at = "idle" \/ (run'.at = "prepare" /\ run'.id = run.id)
          /\ run'.walks = FALSE
      <4>1. CASE run' = Idle
        BY <1>1, <4>1
      <4>2. CASE run' = [Idle EXCEPT !.at = "prepare", !.id = run.id,
                                     !.walks = FALSE]
        BY <4>2 DEF Idle
      <4> QED
        BY <3>1, <4>1, <4>2
    <3> QED
      BY <3>1, <3>2 DEF JournalFirst, WalkEnds
  <2>2. CASE BeginReconcile(run.id, TRUE)
    <3>1. run'.at = "judge" /\ run'.id = run.id /\ UNCHANGED journal
          /\ Nonterminal(run.id) /\ run'.was = journal[run.id].state
      BY <2>2 DEF BeginReconcile, Idle
    <3>2. run'.was # None
      BY <1>1, <1>3, <3>1, AnswersAreNotNone
         DEF Walk, CallInv, Nonterminal, Terminal, Publication
    <3> QED
      BY <1>3, <3>1, <3>2 DEF JournalFirst, WalkEnds, Walk, Nonterminal
  <2>3. CASE ~BeginFresh(run.id, FALSE) /\ ~BeginReconcile(run.id, TRUE)
    <3>1. /\ run'.at \in {"walk", "idle"} /\ UNCHANGED journal
          /\ run.at = "walk" /\ ~run'.walks
      BY <1>1, <1>3, <2>3 DEF Walk, Return, WalkEnds
    <3> QED
      BY <3>1 DEF JournalFirst, WalkEnds
  <2> QED
    BY <2>1, <2>2, <2>3
<1>4. CASE Prepare
  <2>1. /\ \/ run'.at = "idle"
           \/ /\ run'.at = "replace" /\ run'.id = run.id
              /\ journal' = [journal EXCEPT ![run.id] = Prepared]
        /\ ~run'.walks
    BY <1>1, <1>4 DEF Prepare, Return, JournalWritten, WalkEnds
  <2>2. run.id \in Id
    BY <1>4 DEF Prepare, CallInv
  <2>3. Prepared # None /\ Prepared.state = "prepared"
    BY PreparedConsistent, PublicationsAreNotNone DEF Prepared
  <2> QED
    BY <1>1, <2>1, <2>2, <2>3 DEF JournalFirst, WalkEnds, Nonterminal, Terminal
<1>5. CASE Mark
  <2>1. /\ run.at = "mark" /\ run.id \in Id /\ run.k \in Index
        /\ MarkedTo(run.k) /\ run.was = None /\ Nonterminal(run.id)
    BY <1>5 DEF Mark, CallInv, DoneThis, JournalFirst
  <2>2. Progress # None /\ (run.k # N => Progress.state = "replacing")
    BY <2>1, ProgressConsistent, PublicationsAreNotNone DEF Progress
  <2>3. \/ run'.at = "idle"
        \/ /\ run'.at = "replace" /\ run'.id = run.id /\ run.k # N
           /\ journal' = [journal EXCEPT ![run.id] = Progress]
        \/ /\ run'.at = "judge" /\ run'.id = run.id /\ run'.was = run.was
           /\ \/ journal' = journal
              \/ journal' = [journal EXCEPT ![run.id] = Progress]
    BY <1>1, <1>5 DEF Mark, Return, JournalWritten, JournalFailed,
       Fails
  <2>4. ~run'.walks
    BY <1>1, <1>5 DEF Mark, Return, WalkEnds
  <2>5. CASE /\ run'.at = "judge" /\ run.k = N
             /\ journal' = [journal EXCEPT ![run.id] = Progress]
    <3>1. Progress.state = "committed" /\ journal'[run.id] = Progress
      BY <1>1, <2>1, <2>5 DEF Progress
    <3>2. PICK id \in Id : id = run.id
      BY <2>1
    <3>3. Committed(id)' /\ ~Committed(id)
      BY <2>1, <2>2, <3>1, <3>2 DEF Committed, Nonterminal, Terminal
    <3>4. InDoubt(id)'
      BY <2>5, <3>3 DEF BatchNext, Doubted, InDoubt
    <3>5. run'.id = id /\ run'.was = None
      BY <2>1, <2>3, <2>5, <3>2
    <3>6. TakenBack(run.id)'
      BY <3>4, <3>5 DEF TakenBack, InDoubt, Committed
    <3> QED
      BY <2>4, <2>5, <3>6 DEF JournalFirst, WalkEnds
  <2>6. CASE ~(/\ run'.at = "judge" /\ run.k = N
               /\ journal' = [journal EXCEPT ![run.id] = Progress])
    BY <1>1, <2>1, <2>2, <2>3, <2>4, <2>6
       DEF JournalFirst, WalkEnds, Nonterminal, Terminal
  <2> QED
    BY <2>5, <2>6
<1>6. CASE Replace \/ Caught \/ Judge \/ Restore
  <2>1. UNCHANGED journal
    BY <1>6 DEF Replace, Caught, Judge, Restore
  <2>2. /\ run'.id = run.id /\ run'.walks = run.walks /\ run'.was = run.was
        /\ run.at \in {"replace", "caught", "judge", "restore"}
        /\ run'.at \in {"mark", "caught", "judge", "restore"}
        /\ run.at \in {"judge", "restore"} => run'.at \in {"judge", "restore"}
    BY <1>1, <1>6, JudgeLeads DEF Replace, Caught, Restore
  <2>3. PICK id \in Id : id = run.id
    BY <2>2 DEF CallInv
  <2>4. InDoubt(id) => InDoubt(id)'
    BY <2>1, DoubtLasts
  <2>5. TakenBack(run.id) => TakenBack(run.id)'
    BY <2>2, <2>3, <2>4 DEF TakenBack, InDoubt, Committed
  <2>6. JournalFirst'
    BY <2>1, <2>2, <2>5 DEF JournalFirst, Nonterminal
  <2> QED
    BY <2>1, <2>2, <2>6 DEF JournalFirst, WalkEnds
<1>7. CASE Finish
  <2>1. /\ run.at = "judge" /\ run.id \in Id
        /\ run.walks => Nonterminal(run.id)
    BY <1>7 DEF Finish, CallInv, JournalFirst, WalkEnds, TakenBack
  <2>2. \/ run' = Idle
        \/ /\ run' = [Idle EXCEPT !.at = "walk", !.id = run.id] /\ run.walks
           /\ \E pub : journal' = [journal EXCEPT ![run.id] = pub]
    BY <1>7 DEF Finish, Return, JournalWritten
  <2>3. /\ run'.at = "idle" \/ run'.at = "walk"
        /\ run'.walks = FALSE
    <3>1. CASE run' = Idle
      BY <1>1, <3>1
    <3>2. CASE run' = [Idle EXCEPT !.at = "walk", !.id = run.id]
      BY <3>2 DEF Idle
    <3> QED
      BY <2>2, <3>1, <3>2
  <2>4. run.walks => journal[MaxAttempt] = None
    BY <2>1 DEF WalkEnds
  <2>5. run'.at = "walk" => journal'[MaxAttempt] = None
    <3>1. CASE run' = Idle
      BY <1>1, <3>1
    <3>2. CASE /\ run.walks
               /\ \E pub : journal' = [journal EXCEPT ![run.id] = pub]
      <4>1. run.id # MaxAttempt
        BY <2>1, <2>4, <3>2 DEF Nonterminal
      <4>2. MaxAttempt \in Id
        BY BatchAssumption
      <4> QED
        BY <1>1, <2>4, <3>2, <4>1, <4>2
    <3> QED
      BY <2>2, <3>1, <3>2
  <2> QED
    BY <2>3, <2>5 DEF JournalFirst, WalkEnds
<1>8. CASE Environment
  <2>1. UNCHANGED journal
    BY <1>8 DEF Environment, Crash, Edit
  <2>2. (run'.at = "idle" /\ ~run'.walks) \/ (/\ run'.at = run.at /\ run'.id = run.id
                            /\ run'.walks = run.walks /\ run'.was = run.was)
    BY <1>1, <1>8 DEF Environment, Crash, Edit, Return
  <2>3. CASE run'.at = "idle"
    BY <2>1, <2>2, <2>3 DEF JournalFirst, WalkEnds
  <2>4. CASE run'.at # "idle"
    <3>1. PICK id \in Id : id = run.id
      BY <1>1, <2>2, <2>4 DEF CallInv
    <3>2. InDoubt(id) => InDoubt(id)'
      BY <2>1, DoubtLasts
    <3>3. TakenBack(run.id) => TakenBack(run.id)'
      BY <2>2, <2>4, <3>1, <3>2 DEF TakenBack, InDoubt, Committed
    <3>4. JournalFirst'
      BY <2>1, <2>2, <2>4, <3>3 DEF JournalFirst, Nonterminal
    <3> QED
      BY <2>1, <2>2, <2>4, <3>4 DEF WalkEnds
  <2> QED
    BY <2>3, <2>4
<1> QED
  BY <1>2, <1>3, <1>4, <1>5, <1>6, <1>7, <1>8 DEF BatchNext, BatchStep, Step

(* a journal that blocks the targets after a step, or is in doubt, or is    *)
(* committed with every output in place                                     *)
LEMMA BlockedIsWhole ==
    ASSUME NEW id \in Id, journal'[id] # None,
           journal'[id].state \notin {"committed", "compensated"}
    PROVE  ReadableIsWhole'
BY DEF ReadableIsWhole, Blocks

LEMMA DoubtedIsWhole ==
    ASSUME NEW id \in Id, InDoubt(id)'
    PROVE  ReadableIsWhole'
BY DEF ReadableIsWhole

LEMMA CommittedIsWhole ==
    ASSUME NEW id \in Id, journal'[id] # None,
           journal'[id].state = "committed",
           \A t \in Index \ edited' : file'[t] = Replacement[t]
    PROVE  ReadableIsWhole'
BY DEF ReadableIsWhole, Committed

(* What can be read stays whole: targets change only under a journal that   *)
(* blocks them or is in doubt, and the steps that stop it blocking find the *)
(* targets all replaced or all put back.                                    *)
LEMMA WholeStep ==
    ASSUME BInv, BatchNext
    PROVE  ReadableIsWhole'
<1> USE DEF BInv, IInv
<1>1. run.at # "idle" => run.id \in Id
  BY DEF TypeOK, CallInv
<1>2. CASE At({"replace", "mark", "caught", "judge", "restore"}) /\ journal' = journal
  <2>1. run.id \in Id /\ (Nonterminal(run.id) \/ InDoubt(run.id))
    BY <1>1, <1>2 DEF JournalFirst, TakenBack, At
  <2>2. CASE Nonterminal(run.id)
    <3>1. /\ journal'[run.id] # None
          /\ journal'[run.id].state \notin {"committed", "compensated"}
      BY <1>2, <2>2 DEF Nonterminal, Terminal
    <3> QED
      BY <2>1, <3>1, BlockedIsWhole
  <2>3. CASE InDoubt(run.id)
    BY <1>2, <2>1, <2>3, DoubtLasts, DoubtedIsWhole
  <2> QED
    BY <2>1, <2>2, <2>3
<1>3. CASE Mark /\ journal' # journal
  <2>1. /\ run.at = "mark" /\ run.id \in Id /\ run.k \in Index
        /\ ReplacedTo(run.k) /\ MarkedTo(run.k)
        /\ UNCHANGED <<file, edited>>
    BY <1>3 DEF Mark, CallInv, DoneThis
  <2>2. journal' = [journal EXCEPT ![run.id] = Progress]
    BY <1>3 DEF Mark, JournalWritten, JournalFailed, Fails
  <2>3. journal'[run.id] = Progress /\ Progress # None
    BY <2>1, <2>2, ProgressConsistent, PublicationsAreNotNone DEF TypeOK
  <2>4. CASE run.k = N
    <3>1. journal'[run.id] # None /\ journal'[run.id].state = "committed"
      BY <2>3, <2>4 DEF Progress
    <3>2. \A t \in Index \ edited' : file'[t] = Replacement[t]
      BY <2>1, <2>4, WritesAssumption DEF ReplacedTo
    <3> QED
      BY <2>1, <3>1, <3>2, CommittedIsWhole
  <2>5. CASE run.k # N
    <3>1. /\ journal'[run.id] # None
          /\ journal'[run.id].state \notin {"committed", "compensated"}
      BY <2>3, <2>5 DEF Progress
    <3> QED
      BY <2>1, <3>1, BlockedIsWhole
  <2> QED
    BY <2>4, <2>5
<1>4. CASE Finish /\ journal' # journal
  <2>1. /\ run.at = "judge" /\ run.k = 0 /\ run.id \in Id
        /\ ~Compensated(run.id)
        /\ UNCHANGED <<file, edited>>
    BY <1>4, JournalWrites DEF Finish
  <2>2. journal' = [journal EXCEPT ![run.id] = Outcome]
    BY <1>4 DEF Finish, JournalWritten, JournalFailed
  <2>3. journal'[run.id] = Outcome /\ Outcome # None
        /\ \A c \in Id \ {run.id} : journal'[c] = journal[c]
    BY <2>1, <2>2, OutcomeTyped, PublicationsAreNotNone DEF TypeOK
  <2>4. CASE Outcome.state = "compensated"
    <3>1. \A t \in Index \ edited' : file'[t] = Original[t]
      BY <2>1, <2>4, AllPutBack
    <3>2. \A c \in Id \ {run.id} : ~Committed(c)
      BY <2>1, Frontier DEF WalkedOver
    <3>3. \A c \in Id : ~Committed(c)'
      BY <2>3, <2>4, <3>2 DEF Committed
    <3> QED
      BY <3>1, <3>3 DEF ReadableIsWhole
  <2>5. CASE Outcome.state # "compensated"
    <3>1. /\ journal'[run.id] # None
          /\ journal'[run.id].state \notin {"committed", "compensated"}
      BY <2>3, <2>5 DEF Outcome
    <3> QED
      BY <2>1, <3>1, BlockedIsWhole
  <2> QED
    BY <2>4, <2>5
<1>5. CASE Prepare
  <2>1. run.at = "prepare" /\ run.id \in Id /\ UNCHANGED <<file, edited>>
    BY <1>5 DEF Prepare, CallInv
  <2>2. CASE journal' = journal
    BY <2>1, <2>2, DoubtLasts DEF ReadableIsWhole, Blocks, Committed
  <2>3. CASE journal' # journal
    <3>1. journal' = [journal EXCEPT ![run.id] = Prepared]
      BY <1>5, <2>3 DEF Prepare, JournalWritten, JournalFailed
    <3>2. journal'[run.id] = Prepared /\ Prepared # None
      BY <2>1, <3>1, PreparedConsistent, PublicationsAreNotNone DEF TypeOK
    <3> QED
      BY <2>1, <3>2, BlockedIsWhole DEF Prepared
  <2> QED
    BY <2>2, <2>3
<1>6. CASE Walk
  <2>1. run.at = "walk" /\ run.id \in Id /\ UNCHANGED <<file, journal>>
        /\ \A a \in Id : a < run.id => Compensated(a)
    BY <1>6 DEF Walk, CallInv, BeginFresh, BeginReconcile, WalkedOver
  <2>2. CASE edited' = edited
    BY <2>1, <2>2, DoubtLasts DEF ReadableIsWhole, Blocks, Committed
  <2>3. CASE edited' # edited
    <3>1. BeginFresh(run.id, FALSE) /\ file = Original
      BY <1>6, <2>3 DEF Walk, BeginFresh, BeginReconcile
    <3>2. journal[run.id] = None /\ ~Compensated(run.id)
      BY <3>1 DEF BeginFresh, Compensated
    <3>3. \A c \in Id : ~Committed(c)
      BY <2>1, <3>2, Frontier DEF Committed
    <3> QED
      BY <2>1, <3>1, <3>3 DEF ReadableIsWhole, Committed
  <2> QED
    BY <2>2, <2>3
<1>7. CASE Apply \/ Environment
  <2>1. UNCHANGED journal
    BY <1>7 DEF Apply, Environment, Crash, Edit
  <2>2. \A t \in Index \ edited' : t \notin edited /\ file'[t] = file[t]
    <3>1. CASE UNCHANGED <<file, edited>>
      BY <3>1
    <3>2. CASE \E k \in Index, text \in Content \cup {None} : Edit(k, text)
      BY <3>2 DEF Edit, TypeOK
    <3> QED
      BY <1>7, <3>1, <3>2 DEF Apply, Environment, Crash
  <2> QED
    BY <2>1, <2>2, DoubtLasts DEF ReadableIsWhole, Blocks, Committed
<1>8. CASE Replace \/ Caught \/ Judge \/ Restore
  BY <1>2, <1>8 DEF Replace, Caught, Judge, Restore
<1>9. (Mark \/ Finish) => At({"mark", "judge"})
  BY DEF Mark, Finish
<1> QED
  BY <1>2, <1>3, <1>4, <1>5, <1>6, <1>7, <1>8, <1>9 DEF BatchNext, BatchStep, Step

-----------------------------------------------------------------------------
LEMMA InitBInv == BatchInit => BInv
<1> SUFFICES ASSUME Init, doubtful = {} PROVE BInv
  BY DEF BatchInit
<1>1. IInv
  BY InitIInv
<1>2. AttemptsInOrder /\ WalkedOver /\ JournalFirst
  BY IdleTyped DEF Init, AttemptsInOrder, WalkedOver, JournalFirst
<1>3. WalkEnds
  BY DEF Init, WalkEnds, Idle
<1>4. ReadableIsWhole
  BY DEF Init, ReadableIsWhole, Committed
<1> QED
  BY <1>1, <1>2, <1>3, <1>4 DEF BInv

LEMMA StepBInv ==
    ASSUME BInv, [BatchNext]_bvars
    PROVE  BInv'
<1>1. CASE BatchNext
  <2>1. IInv'
    BY <1>1, BatchIInv DEF BInv
  <2>2. (doubtful \subseteq Id)'
    BY <1>1 DEF BInv, BatchNext, Doubted
  <2> QED
    BY <1>1, <2>1, <2>2, OrderStep, WalkedStep, FirstStep, WholeStep DEF BInv
<1>2. CASE UNCHANGED bvars
  <2>1. IInv'
    BY <1>2, StutterIInv DEF BInv, bvars
  <2> QED
    BY <1>2, <2>1 DEF BInv, bvars, vars, AttemptsInOrder, WalkedOver, JournalFirst,
       WalkEnds, ReadableIsWhole, Compensated, Committed, Blocks, Nonterminal,
       InDoubt, TakenBack
<1> QED
  BY <1>1, <1>2

THEOREM BatchInductive == BatchSpec => []BInv
<1>1. BInv /\ [BatchNext]_bvars => BInv'
  BY StepBInv
<1> QED
  BY InitBInv, <1>1, PTL DEF BatchSpec

(* Whatever can be read is all outputs or all originals, through crashes,   *)
(* failed writes, edits and any number of attempts, unless a commit is in   *)
(* doubt.                                                                   *)
THEOREM ReadsAreWhole == BatchSpec => []ReadableIsWhole
<1>1. BInv => ReadableIsWhole
  BY DEF BInv
<1> QED
  BY BatchInductive, <1>1, PTL

(* A batch is never committed twice.                                        *)
THEOREM CommittedOnce == BatchSpec => []OneCommit
<1>1. BInv => OneCommit
  BY AttemptIsNat DEF BInv, AttemptsInOrder, OneCommit, Committed, Compensated
<1> QED
  BY BatchInductive, <1>1, PTL

(* Every other attempt is over, and none is committed, when the journal of  *)
(* a new one is written.                                                    *)
THEOREM NewIdsAfterCompensation == BatchSpec => NewIdAfterCompensation
<1> DEFINE InTurn == \A id \in Id :
              (journal[id] = None /\ journal'[id] # None)
                  => \A other \in Id \ {id} : ~Nonterminal(other) /\ ~Committed(other)
<1>1. BInv /\ [BatchNext]_bvars => [InTurn]_bvars
  <2> SUFFICES ASSUME BInv, BatchNext, NEW id \in Id, journal[id] = None,
                      journal'[id] # None
               PROVE  \A other \in Id \ {id} : ~Nonterminal(other) /\ ~Committed(other)
    BY DEF bvars
  <2>1. /\ run.id \in Id /\ ~Compensated(run.id)
        /\ \A a \in Id : a < run.id => Compensated(a)
        /\ \E pub : journal' = [journal EXCEPT ![run.id] = pub]
    BY JournalWrites
  <2>2. id = run.id
    BY <2>1 DEF BInv, IInv, TypeOK
  <2> QED
    BY <2>1, <2>2, Frontier DEF BInv, IInv
<1> QED
  BY BatchInductive, <1>1, PTL DEF NewIdAfterCompensation, BatchSpec

(* A journal in a final state is never written again, but for a commit in   *)
(* doubt, by the call that takes it back.                                   *)
THEOREM FinalJournals == BatchSpec => TerminalIsFinal
<1> DEFINE Final == \A id \in Id :
              (journal[id] # None /\ Terminal(journal[id]) /\ journal'[id] # journal[id])
                  => InDoubt(id) /\ run.at = "judge" /\ run.id = id
<1>1. BInv /\ [BatchNext]_bvars => [Final]_bvars
  <2> SUFFICES ASSUME BInv, BatchNext, NEW id \in Id, journal[id] # None,
                      Terminal(journal[id]), journal'[id] # journal[id]
               PROVE  InDoubt(id) /\ run.at = "judge" /\ run.id = id
    BY DEF bvars
  <2>1. /\ run.id \in Id
        /\ \/ journal[run.id] = None \/ Nonterminal(run.id)
           \/ InDoubt(run.id) /\ run.at = "judge"
        /\ \E pub : journal' = [journal EXCEPT ![run.id] = pub]
    BY JournalWrites
  <2>2. id = run.id
    BY <2>1 DEF BInv, IInv, TypeOK
  <2> QED
    BY <2>1, <2>2 DEF Nonterminal
<1> QED
  BY BatchInductive, <1>1, PTL DEF TerminalIsFinal, BatchSpec
=============================================================================
