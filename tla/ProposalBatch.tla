--------------------------- MODULE ProposalBatch ---------------------------
(* portfolio_research.apply_proposals: a batch of approved proposals is     *)
(* applied as one transaction of two writes per proposal, its narrative     *)
(* source and then its record, whose text holds the proposal's state.  The  *)
(* transaction ID is found by walking the journals of earlier attempts.     *)
EXTENDS PublishTransaction

CONSTANT MaxAttempt     \* bound on the retry journals of one batch

VARIABLE doubtful       \* history: the attempts whose commit was doubtful

bvars == <<vars, doubtful>>

Proposal == 1..(N \div 2)
Source(p) == 2 * p - 1
Record(p) == 2 * p

ASSUME BatchAssumption ==
    /\ N % 2 = 0
    /\ MaxAttempt \in Nat \ {0}
    /\ Id = 1..MaxAttempt        \* the base ID and its "-retry-n" successors
    /\ \A i \in Index : Original[i] # None
    /\ \A p \in Proposal : Original[Record(p)] # Replacement[Record(p)]

(* The caller passes the proposals as it has just loaded them, so the       *)
(* record's text decides the state; the source must have the digest that    *)
(* goes with it.                                                            *)
Has(p, texts) == \A i \in {Source(p), Record(p)} : file[i] = texts[i]

(* A batch that is applied already is answered at once; a mixed one and one *)
(* whose files diverged are refused before any journal is read.             *)
Apply ==
    /\ run.at = "idle"
    /\ journal[MaxAttempt] = None
    /\ CASE \A p \in Proposal : Has(p, Replacement) -> Return("committed")
         [] \A p \in Proposal : Has(p, Original) ->
              run' = [Idle EXCEPT !.at = "walk", !.id = 1] /\ answer' = None
         [] OTHER -> Return("refused")
    /\ UNCHANGED <<file, journal, edited, left>>

(* mutation: committed attempts are passed over                             *)
WalkOverCommitted ==
    /\ run.at = "walk"
    /\ \/ BeginFresh(run.id, FALSE)
       \/ BeginReconcile(run.id, TRUE)
       \/ /\ journal[run.id] # None
          /\ Terminal(journal[run.id])
          /\ run.id < MaxAttempt
          /\ run' = [run EXCEPT !.id = @ + 1]
          /\ UNCHANGED <<file, journal, answer, edited, left>>

(* _next_proposal_journal: an unfinished attempt is reconciled, a           *)
(* compensated one passed over; the first absent journal is the one to use. *)
Walk ==
    /\ run.at = "walk"
    /\ \/ BeginFresh(run.id, FALSE)
       \/ BeginReconcile(run.id, TRUE)
       \/ /\ journal[run.id] # None
          /\ Terminal(journal[run.id])
          /\ IF journal[run.id].state = "compensated"
             THEN run' = [run EXCEPT !.id = @ + 1] /\ UNCHANGED answer
             ELSE Return("refused")
          /\ UNCHANGED <<file, journal, edited, left>>

BatchStep ==
    \/ Apply
    \/ Walk
    \/ Step
    \/ Environment

(* History: a commit is doubtful when its journal reached the disk although *)
(* the call saw the write fail (AtomicWriteCommitUncertain, an interrupt):  *)
(* the except clause takes back what the journal says is committed.         *)
Doubted == {id \in Id : run'.at = "judge" /\ ~Committed(id) /\ Committed(id)'}
BatchNext == BatchStep /\ doubtful' = doubtful \cup Doubted

BatchInit == Init /\ doubtful = {}
BatchSpec == BatchInit /\ [][BatchNext]_bvars

-----------------------------------------------------------------------------
InDoubt(id) == id \in doubtful /\ Committed(id)

(* What ensure_readable lets anybody read is whole: all outputs once a      *)
(* journal is committed, all originals otherwise.  It is not while a        *)
(* doubtful commit has not been recorded as compensated, which a crash or   *)
(* a second failure makes last: the targets are put back, or some of them,  *)
(* under a journal that blocks nobody.                                      *)
ReadableIsWhole ==
    (\A id \in Id : ~Blocks(id) /\ ~InDoubt(id)) =>
        \A k \in Index \ edited :
            file[k] = IF \E id \in Id : Committed(id)
                      THEN Replacement[k] ELSE Original[k]

(* Of all the attempts at one batch at most one is committed: no retry      *)
(* applies the batch a second time.                                         *)
OneCommit ==
    \A a, b \in Id : Committed(a) /\ Committed(b) => a = b

(* A journal that reached a final state is never changed again, but for the *)
(* doubtful commit that its own call takes back.                            *)
TerminalIsFinal ==
    [][\A id \in Id :
         (journal[id] # None /\ Terminal(journal[id]) /\ journal'[id] # journal[id])
            => InDoubt(id) /\ run.at = "judge" /\ run.id = id]_bvars

(* An attempt is prepared only when every other one is over and none is     *)
(* committed, in doubt or not.                                              *)
NewIdAfterCompensation ==
    [][\A id \in Id : (journal[id] = None /\ journal'[id] # None)
         => \A other \in Id \ {id} : ~Nonterminal(other) /\ ~Committed(other)]_bvars
=============================================================================
