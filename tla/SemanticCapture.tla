--------------------------- MODULE SemanticCapture ---------------------------
(***************************************************************************)
(* The capture command of the semantic evaluation: a search over all       *)
(* platforms hands every title that passes the quick filter to a sink,     *)
(* which publishes them as a queue unless something was incomplete.        *)
(* One action is one query of one platform, with all it comes across.      *)
(***************************************************************************)
EXTENDS Naturals, FiniteSets

CONSTANTS
    Platforms,   \* enabled platforms that can search
    Shown,      \* titles the sites show
    Normal,      \* normalized title of each
    NotOurs,     \* titles the quick filter passes over
    Queries,     \* queries put to each platform
    NoQueue, NoError

ASSUME CaptureAssumption ==
    /\ Queries \in Nat \ {0}
    /\ NotOurs \subseteq Shown
    /\ NoError = 0

VARIABLES
    sources,     \* outcome of each platform so far: complete, and queries still to put
    found,       \* auxiliary: what the completed and incomplete pages showed
    captured,    \* titles the sink holds
    incomplete,  \* severity of the worst thing that happened
    filter,      \* the semantic filter: "absent", "working" or "disabled"
    queue        \* the queue's file

captureVars == <<sources, found, captured, incomplete, filter, queue>>

(* The adapter is built when sentence_transformers can be imported; without *)
(* it, or with the filter switched off, the search has none.               *)
CaptureInit ==
    /\ sources = [p \in Platforms |-> [complete |-> TRUE, left |-> Queries]]
    /\ found = {}
    /\ captured = {}
    /\ incomplete = NoError
    /\ filter \in {"absent", "working"}
    /\ queue = NoQueue

(* mark_incomplete keeps the most severe code: semantic_unavailable 1,     *)
(* search_incomplete 2, platform_failure 3.                                *)
(* mutation: nothing is worse than no code *)
WorseThanKnown(old, code) == IF old # NoError /\ code > old THEN code ELSE old

Worse(old, code) == IF code > old THEN code ELSE old

(* A platform is complete when all its batches are. *)
Outcome(old, complete, left) == [complete |-> old.complete /\ complete, left |-> left]

(* The adapter raises: the outcome is recorded and the platform is left.   *)
Fails(p) ==
    /\ sources[p].left > 0
    /\ sources' = [sources EXCEPT ![p] = Outcome(@, FALSE, 0)]
    /\ incomplete' = Worse(incomplete, 3)
    /\ UNCHANGED <<found, captured, filter, queue>>

(* Every eligible title is captured before it is classified; a failure of  *)
(* the filter is seen after the classification it happened in.             *)
Captured(eligible) == IF filter = "absent" THEN {} ELSE eligible

(* A batch of pages, the whole of what there is or cut short. *)
Batch(p, items, complete, then) ==
    LET eligible == items \ NotOurs
        cut == IF complete THEN NoError ELSE 2
        off == IF then = "disabled" /\ eligible # {} THEN 1 ELSE NoError
    IN /\ sources[p].left > 0
       /\ then # filter => filter = "working" /\ then = "disabled" /\ eligible # {}
       /\ sources' = [sources EXCEPT ![p] = Outcome(@, complete, @.left - 1)]
       /\ found' = found \cup eligible
       /\ captured' = captured \cup Captured(eligible)
       /\ incomplete' = Worse(Worse(incomplete, cut), off)
       /\ filter' = then
       /\ UNCHANGED queue

(* publish refuses what is incomplete; duplicates of a normalized title are *)
(* one case, and the outcomes of the platforms go with it.                 *)
PublishQueue ==
    /\ \A p \in Platforms : sources[p].left = 0
    /\ queue = NoQueue
    /\ incomplete = NoError
    /\ queue' = [cases |-> {Normal[t] : t \in captured},
                 complete |-> {p \in Platforms : sources[p].complete}]
    /\ UNCHANGED <<sources, found, captured, incomplete, filter>>

CaptureNext ==
    \/ \E p \in Platforms : Fails(p)
    \/ \E p \in Platforms, items \in SUBSET Shown, complete \in BOOLEAN,
          then \in {"absent", "working", "disabled"} : Batch(p, items, complete, then)
    \/ PublishQueue

CaptureSpec == CaptureInit /\ [][CaptureNext]_captureVars

(* A queue holds every eligible title the search came across, all platforms
   were searched to the end, and the filter worked throughout: whoever labels
   it labels a sample of everything (SemanticEvalCaptureSink.publish).  A
   search without the filter captures nothing, and says nothing of it. *)
QueueIsWhole ==
    queue # NoQueue =>
        /\ queue.complete = Platforms
        /\ filter # "disabled"
        /\ filter = "working" => queue.cases = {Normal[t] : t \in found}
=============================================================================
