------------------------ MODULE PublishTransaction ------------------------
(* portfolio_research.publish_transaction: several private files replaced   *)
(* as one transaction, under a journal that is written before the first     *)
(* target and after each one.  A call that fails puts back what it had      *)
(* replaced (compensation); a call that dies leaves a nonterminal journal,  *)
(* which the next call with the same transaction ID reconciles.  The user   *)
(* edits the targets at any moment; nothing locks them.                     *)
EXTENDS Integers

CONSTANTS
    N,            \* writes of the transaction, in the order they are made
    Id,           \* transaction IDs, each with a journal path of its own
    Content,      \* texts a target can hold
    None,         \* no file, no journal, no answer
    Original,     \* original_text of each write, None for a new target
    Replacement,  \* replacement_text of each write
    JournalFaults,  \* how atomic_write of a journal can fail, and
    TargetFaults,   \* of a target: "before" or "after" the os.replace
    MaxFaults, MaxCrashes, MaxEdits     \* bounds

Index == 1..N

ASSUME WritesAssumption ==
    /\ N \in Nat \ {0}
    /\ None \notin Content
    /\ Original \in [Index -> Content \cup {None}]
    /\ Replacement \in [Index -> Content]
ASSUME FaultsAssumption ==
    /\ JournalFaults \subseteq {"before", "after"}
    /\ TargetFaults \subseteq {"before", "after"}
ASSUME AnswersAreNotNone ==
    None \notin {"committed", "compensated", "manual-recovery", "refused",
                 "raised", "pending", "replaced", "prepared", "replacing"}
ASSUME BoundsAssumption ==
    MaxFaults \in Nat /\ MaxCrashes \in Nat /\ MaxEdits \in Nat

WriteState == {"pending", "replaced", "compensated", "manual-recovery"}
Publication == [state : {"prepared", "replacing", "committed", "compensated",
                         "manual-recovery"},
                writes : [Index -> WriteState]]

ASSUME PublicationsAreNotNone == None \notin Publication

VARIABLES
    file,      \* what is at each target
    journal,   \* journal[id]: None or the publication it holds
    run,       \* the call being executed: where it is and what it remembers
    answer,    \* how the last call ended; None while one runs or has died
    edited,    \* targets the user changed since the pre-state was last found
    left       \* faults, crashes and edits that may still happen

vars == <<file, journal, run, answer, edited, left>>

(* at: the statement to execute; k: the write it is about; was: the state   *)
(* the journal had when it was loaded; raced: an edit came between the      *)
(* digest comparison of the target and its restoration; walks: the caller   *)
(* goes on to the next journal after a reconciliation                       *)
Idle == [at |-> "idle", id |-> None, k |-> 0,
         writes |-> [i \in Index |-> "pending"],
         was |-> None, raced |-> FALSE, walks |-> FALSE]

Init ==
    /\ file = Original
    /\ journal = [id \in Id |-> None]
    /\ run = Idle
    /\ answer = None
    /\ edited = {}
    /\ left = [faults |-> MaxFaults, crashes |-> MaxCrashes,
               edits |-> MaxEdits]

Terminal(pub) == pub.state \in {"committed", "compensated", "manual-recovery"}
Nonterminal(id) == journal[id] # None /\ ~Terminal(journal[id])

(* PublicationResult.__post_init__: the combinations of transaction and     *)
(* write states that can be constructed at all; anything else raises.       *)
OrderedAs(first, writes) ==
    \E n \in Index : \A i \in Index :
        writes[i] = IF i <= n THEN first ELSE "pending"
Consistent(pub) ==
    \/ pub.state = "prepared" /\ \A i \in Index : pub.writes[i] = "pending"
    \/ pub.state = "replacing" /\ OrderedAs("replaced", pub.writes)
    \/ pub.state = "committed" /\ \A i \in Index : pub.writes[i] = "replaced"
    \/ pub.state = "compensated" /\ OrderedAs("compensated", pub.writes)
    \/ /\ pub.state = "manual-recovery"
       /\ \E i \in Index : pub.writes[i] \in {"replaced", "manual-recovery"}

Return(a) == run' = Idle /\ answer' = a

(* atomic_write of the running call's journal, and of a target.  A failure  *)
(* "before" leaves the old file; one "after" is AtomicWriteCommitUncertain  *)
(* or an interrupt: the new file is in place and the caller sees an error.  *)
Fails(faults, how) ==
    /\ how \in faults
    /\ left.faults > 0
    /\ left' = [left EXCEPT !.faults = @ - 1]

JournalWritten(pub) ==
    /\ journal' = [journal EXCEPT ![run.id] = pub]
    /\ UNCHANGED left
JournalFailed(pub) ==
    \/ Fails(JournalFaults, "before") /\ UNCHANGED journal
    \/ /\ Fails(JournalFaults, "after")
       /\ journal' = [journal EXCEPT ![run.id] = pub]
TargetFailed(k, text) ==
    \/ Fails(TargetFaults, "before") /\ UNCHANGED file
    \/ /\ Fails(TargetFaults, "after")
       /\ text # None          \* unlink either happens or raises
       /\ file' = [file EXCEPT ![k] = text]

-----------------------------------------------------------------------------
(* The call up to the first replacement.                                    *)

(* the journal of the ID is absent: every target must be in its pre-state   *)
BeginFresh(id, walks) ==
    /\ journal[id] = None
    /\ IF file = Original
       THEN /\ run' = [Idle EXCEPT !.at = "prepare", !.id = id, !.walks = walks]
            /\ answer' = None
            /\ edited' = {}
       ELSE Return("refused") /\ UNCHANGED edited
    /\ UNCHANGED <<file, journal, left>>

(* committed: the outputs are compared and the call is answered again       *)
Rerun(id) ==
    /\ journal[id] # None
    /\ Terminal(journal[id])
    /\ Return(IF journal[id].state = "committed" /\ file = Replacement
              THEN "committed" ELSE "refused")
    /\ UNCHANGED <<file, journal, edited, left>>

BeginReconcile(id, walks) ==
    /\ Nonterminal(id)
    /\ run' = [Idle EXCEPT !.at = "judge", !.id = id, !.k = N,
                           !.writes = journal[id].writes,
                           !.was = journal[id].state, !.walks = walks]
    /\ answer' = None
    /\ UNCHANGED <<file, journal, edited, left>>

Publish(id) ==
    /\ run.at = "idle"
    /\ \/ BeginFresh(id, FALSE)
       \/ Rerun(id)
       \/ BeginReconcile(id, FALSE)

(* the journal is on disk before any target changes; this write is outside  *)
(* the try block                                                            *)
Prepared == [state |-> "prepared", writes |-> [i \in Index |-> "pending"]]
Prepare ==
    /\ run.at = "prepare"
    /\ \/ /\ JournalWritten(Prepared)
          /\ run' = [run EXCEPT !.at = "replace", !.k = 1]
          /\ UNCHANGED answer
       \/ JournalFailed(Prepared) /\ Return("raised")
    /\ UNCHANGED <<file, edited>>

-----------------------------------------------------------------------------
(* One target after the other, the journal after each.                      *)

Replace ==
    /\ run.at = "replace"
    /\ \/ /\ file' = [file EXCEPT ![run.k] = Replacement[run.k]]
          /\ run' = [run EXCEPT !.at = "mark", !.writes[run.k] = "replaced"]
          /\ UNCHANGED left
       \/ /\ TargetFailed(run.k, Replacement[run.k])
          /\ run' = [run EXCEPT !.at = "caught"]
    /\ UNCHANGED <<journal, answer, edited>>

(* mutation: off by one, committed before the last write                    *)
ProgressEarly == [state |-> IF run.k + 1 >= N THEN "committed" ELSE "replacing",
                  writes |-> run.writes]
Progress == [state |-> IF run.k = N THEN "committed" ELSE "replacing",
             writes |-> run.writes]
Mark ==
    /\ run.at = "mark"
    /\ \/ /\ JournalWritten(Progress)
          /\ IF run.k = N
             THEN Return("committed")
             ELSE /\ run' = [run EXCEPT !.at = "replace", !.k = @ + 1]
                  /\ UNCHANGED answer
       \/ /\ JournalFailed(Progress)
          /\ run' = [run EXCEPT !.at = "judge"]
          /\ UNCHANGED answer
    /\ UNCHANGED <<file, edited>>

(* mutation: a failed replacement never counts as made                      *)
CaughtAsNotMade ==
    /\ run.at = "caught"
    /\ run' = [run EXCEPT !.at = "judge", !.k = @ - 1]
    /\ UNCHANGED <<file, journal, answer, edited, left>>

(* the failed replacement counts as made when the target has its output     *)
Caught ==
    /\ run.at = "caught"
    /\ run' = [run EXCEPT !.at = "judge",
                          !.k = IF file[@] = Replacement[@] THEN @ ELSE @ - 1]
    /\ UNCHANGED <<file, journal, answer, edited, left>>

-----------------------------------------------------------------------------
(* Putting targets back, last write first: the except clause of             *)
(* publish_transaction (was = None) and _reconcile_nonterminal_transaction. *)

(* what the target's digest says: "restore" it, "keep" it, or "diverged"    *)
(* mutation: the digest is not compared                                     *)
CompensatingBlindly(k) == "restore"
Compensating(k) ==
    IF file[k] = Replacement[k] \/ (Original[k] = None /\ file[k] = None)
    THEN "restore" ELSE "diverged"
Reconciling(k) ==
    CASE run.writes[k] # "compensated" /\ file[k] = Replacement[k] -> "restore"
      [] run.writes[k] # "replaced" /\ file[k] = Original[k] -> "keep"
      [] OTHER -> "diverged"

(* a pending write left as it was is recorded as compensated only from a    *)
(* prepared journal                                                         *)
(* mutation: pending stays pending, whatever the journal said               *)
KeptAsItWas(state) == state
Kept(state) ==
    IF state = "pending" /\ run.was = "prepared" THEN "compensated" ELSE state

Judge ==
    /\ run.at = "judge"
    /\ run.k > 0
    /\ LET found == IF run.was = None THEN Compensating(run.k)
                                      ELSE Reconciling(run.k)
       IN  run' = CASE found = "restore" ->
                        [run EXCEPT !.at = "restore", !.raced = FALSE]
                    [] found = "keep" ->
                        [run EXCEPT !.k = @ - 1, !.writes[run.k] = Kept(@)]
                    [] found = "diverged" ->
                        [run EXCEPT !.k = @ - 1,
                                    !.writes[run.k] = "manual-recovery"]
    /\ UNCHANGED <<file, journal, answer, edited, left>>

(* only the reconciliation insists that a new target be there to unlink     *)
Missing(k) == Original[k] = None /\ file[k] = None /\ run.was # None

Restore ==
    LET k == run.k
        After(state) == run' = [run EXCEPT !.at = "judge", !.k = @ - 1,
                                           !.writes[k] = state,
                                           !.raced = FALSE]
    IN  /\ run.at = "restore"
        /\ \/ /\ ~Missing(k)
              /\ file' = [file EXCEPT ![k] = Original[k]]
              /\ UNCHANGED left
              /\ After("compensated")
           \/ /\ Missing(k)
              /\ UNCHANGED <<file, left>>
              /\ After("manual-recovery")
           \/ TargetFailed(k, Original[k]) /\ After("manual-recovery")
        /\ UNCHANGED <<journal, answer, edited>>

Outcome ==
    [state |-> IF \E i \in Index : run.writes[i] = "manual-recovery"
               THEN "manual-recovery" ELSE "compensated",
     writes |-> run.writes]

(* the outcome is written to the journal, if PublicationResult accepts it;  *)
(* a reconciliation then refuses the ID, or lets its caller try the next    *)
Finish ==
    /\ run.at = "judge"
    /\ run.k = 0
    /\ \/ /\ Consistent(Outcome)
          /\ JournalWritten(Outcome)
          /\ CASE run.was = None -> Return(Outcome.state)
               [] run.was # None /\ run.walks /\ Outcome.state = "compensated" ->
                    /\ run' = [Idle EXCEPT !.at = "walk", !.id = run.id]
                    /\ UNCHANGED answer
               [] OTHER -> Return("refused")
       \/ Consistent(Outcome) /\ JournalFailed(Outcome) /\ Return("raised")
       \/ ~Consistent(Outcome) /\ Return("raised") /\ UNCHANGED <<journal, left>>
    /\ UNCHANGED <<file, edited>>

-----------------------------------------------------------------------------
(* The process is killed, or interrupted where nothing catches it.          *)
Crash ==
    /\ run.at # "idle"
    /\ left.crashes > 0
    /\ left' = [left EXCEPT !.crashes = @ - 1]
    /\ Return(None)
    /\ UNCHANGED <<file, journal, edited>>

(* The user writes, deletes or reverts a target.                            *)
Edit(k, text) ==
    /\ left.edits > 0
    /\ left' = [left EXCEPT !.edits = @ - 1]
    /\ text # file[k]
    /\ file' = [file EXCEPT ![k] = text]
    /\ edited' = edited \cup {k}
    /\ run' = [run EXCEPT !.raced = @ \/ (run.at = "restore" /\ run.k = k)]
    /\ UNCHANGED <<journal, answer>>

Step == Prepare \/ Replace \/ Mark \/ Caught \/ Judge \/ Restore \/ Finish

Environment ==
    \/ Crash
    \/ \E k \in Index, text \in Content \cup {None} : Edit(k, text)

Next == (\E id \in Id : Publish(id)) \/ Step \/ Environment

(* A call runs to its end unless it dies, and a call that left a journal    *)
(* nonterminal is run again.                                                *)
RerunOf(id) == Nonterminal(id) /\ Publish(id)
Spec == Init /\ [][Next]_vars
FairSpec == Spec /\ WF_vars(Step) /\ \A id \in Id : SF_vars(RerunOf(id))

-----------------------------------------------------------------------------
TypeOK ==
    /\ file \in [Index -> Content \cup {None}]
    /\ journal \in [Id -> Publication \cup {None}]
    /\ \A id \in Id : journal[id] # None => Consistent(journal[id])
    /\ run \in [at : {"idle", "walk", "prepare", "replace", "mark", "caught",
                      "judge", "restore"},
                id : Id \cup {None}, k : 0..N, writes : [Index -> WriteState],
                was : {None, "prepared", "replacing"}, raced : BOOLEAN,
                walks : BOOLEAN]
    /\ answer \in {None, "committed", "compensated", "manual-recovery",
                   "refused", "raised"}
    /\ edited \subseteq Index
    /\ left \in [faults : Nat, crashes : Nat, edits : Nat]

(* A call that answers "committed" has every output in place and one that   *)
(* answers "compensated" has put every original back, whatever failed on    *)
(* the way; only the user's own edits are excepted.                         *)
AnswerIsTrue ==
    /\ answer = "committed" =>
            \A k \in Index \ edited : file[k] = Replacement[k]
    /\ answer = "compensated" =>
            \A k \in Index \ edited : file[k] = Original[k]

(* ensure_readable lets a target be read unless a prepared, replacing or    *)
(* manual-recovery journal names it.                                        *)
Blocks(id) == journal[id] # None /\ journal[id].state \notin {"committed", "compensated"}
Committed(id) == journal[id] # None /\ journal[id].state = "committed"

(* Putting a target back never overwrites what the user had put there       *)
(* before the digests were compared.                                        *)
RestoresOnlyItsOwn ==
    [][(run.at = "restore" /\ run'.at = "judge" /\ ~run.raced /\ file' # file)
         => file[run.k] = Replacement[run.k]]_vars

(* A journal does not stay nonterminal when its transaction is run again.   *)
Settles == []<>(\A id \in Id : ~Nonterminal(id))
=============================================================================
