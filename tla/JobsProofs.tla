------------------------------ MODULE JobsProofs ------------------------------
(* Machine-checked proofs about the parts MCJobs looks at: the query index, *)
(* the file of a company, the gate of assessments, the storage migration    *)
(* and the posting checks.                                                  *)
EXTENDS PostingChecks, StorageMigration, CompanyInfo, IndexRefresh, AssessmentGate,
        FiniteSetTheorems, TLAPS

-----------------------------------------------------------------------------
(* Machine-checked proofs about IndexRefresh, for any records, platforms,   *)
(* callers and processes, any number of writes and rebuilds.  A rebuild     *)
(* that holds the lock has yet to list or to read every record its answer   *)
(* or the database speaks of, or holds a row that is no older: the          *)
(* inductive invariant says so of each caller.                              *)

IndexRows == [Keys -> Nat]
CallerState ==
    [at : {"free", "wait", "build", "replaced", "answer"}, need : IndexRows,
     folders : SUBSET {FolderOf[k] : k \in Keys}, keys : SUBSET Keys, rows : IndexRows,
     failed : BOOLEAN]

IndexTypeOK ==
    /\ stored \in IndexRows
    /\ unreadable \subseteq Keys
    /\ index \in IndexRows \cup {NoDatabase}
    /\ holder \in Callers \cup {Nobody}
    /\ caller \in [Callers -> CallerState]
    /\ rebuilds \in Nat
    /\ promised \in IndexRows

(* what the temporary database has, or will have once everything listed and *)
(* to be listed is read                                                     *)
Pending(s, k) == FolderOf[k] \in s.folders \/ k \in s.keys
Covers(s, k) == s.rows[k] >= s.need[k] /\ (index # NoDatabase => s.rows[k] >= index[k])
Shows(s) == index # NoDatabase /\ \A k \in Keys : index[k] >= s.need[k]

CallerOK(c, s) ==
    /\ s.at \in {"build", "replaced"} => holder = c
    /\ \A k \in Keys : s.need[k] <= stored[k]
    /\ s.at \in {"wait", "build"} => \A k \in Keys : s.rows[k] <= stored[k]
    /\ s.at = "build" => \A k \in Keys : s.failed \/ Pending(s, k) \/ Covers(s, k)
    /\ s.at \in {"replaced", "answer"} => Shows(s)

IndexInv ==
    /\ IndexTypeOK
    /\ index # NoDatabase => \A k \in Keys : index[k] <= stored[k]
    /\ RefreshedShowsIt
    /\ \A c \in Callers : CallerOK(c, caller[c])

-----------------------------------------------------------------------------
LEMMA FreeState == Free \in CallerState /\ NoRows \in IndexRows
BY DEF Free, NoRows, CallerState, IndexRows

LEMMA IndexInitHolds == IndexInit => IndexInv
<1> SUFFICES ASSUME IndexInit PROVE IndexInv
  OBVIOUS
<1>1. IndexTypeOK
  BY FreeState DEF IndexInit, IndexTypeOK
<1>2. \A c \in Callers : CallerOK(c, caller[c])
  BY FreeState DEF IndexInit, CallerOK, Free, NoRows, IndexRows
<1> QED  BY <1>1, <1>2 DEF IndexInit, IndexInv, RefreshedShowsIt, NoRows

(* A step of one caller that writes no record and no database.              *)
LEMMA CallerMoves ==
    ASSUME IndexInv, NEW CONSTANT c \in Callers, NEW CONSTANT new \in CallerState, Does(c, new),
           UNCHANGED <<stored, index>>, unreadable' \subseteq Keys,
           holder' \in Callers \cup {Nobody}, \A d \in Callers \ {c} : holder = d => holder' = d,
           rebuilds' \in Nat, promised' \in IndexRows, RefreshedShowsIt', CallerOK(c, new)'
    PROVE  IndexInv'
<1>1. /\ caller' \in [Callers -> CallerState]
      /\ caller'[c] = new
      /\ \A d \in Callers \ {c} : caller'[d] = caller[d]
  BY DEF IndexInv, IndexTypeOK, Does
<1>2. IndexTypeOK'
  BY <1>1 DEF IndexInv, IndexTypeOK
<1>3. ASSUME NEW d \in Callers PROVE CallerOK(d, caller[d])'
  <2>1. CASE d = c
    BY <1>1, <2>1 DEF CallerOK, Pending, Covers, Shows
  <2>2. CASE d # c
    <3>1. caller'[d] = caller[d] /\ CallerOK(d, caller[d])
      BY <1>1, <2>2 DEF IndexInv
    <3> QED  BY <2>2, <3>1 DEF CallerOK, Pending, Covers, Shows
  <2> QED  BY <2>1, <2>2
<1> QED  BY <1>2, <1>3 DEF IndexInv

(* A record is written: nobody's rows were ahead of it before, nor are now. *)
LEMMA RecordAdvances ==
    ASSUME IndexInv, NEW k \in Keys, stored' = [stored EXCEPT ![k] = @ + 1],
           unreadable' \subseteq Keys, UNCHANGED <<index, holder, caller, rebuilds, promised>>
    PROVE  IndexInv'
<1>1. stored' \in IndexRows /\ \A j \in Keys : stored[j] <= stored'[j]
  BY DEF IndexInv, IndexTypeOK, IndexRows
<1>2. IndexTypeOK'
  BY <1>1 DEF IndexInv, IndexTypeOK
<1>3. index' # NoDatabase => \A j \in Keys : index'[j] <= stored'[j]
  BY <1>1, IndexAssumption DEF IndexInv, IndexTypeOK, IndexRows
<1>4. ASSUME NEW d \in Callers PROVE CallerOK(d, caller[d])'
  <2>1. caller[d].need \in IndexRows /\ caller[d].rows \in IndexRows
    BY DEF IndexInv, IndexTypeOK, CallerState
  <2>2. \A j \in Keys : caller[d].need[j] <= stored'[j]
    BY <1>1, <2>1 DEF IndexInv, CallerOK, IndexTypeOK, IndexRows
  <2>3. caller[d].at \in {"wait", "build"} => \A j \in Keys : caller[d].rows[j] <= stored'[j]
    BY <1>1, <2>1 DEF IndexInv, CallerOK, IndexTypeOK, IndexRows
  <2>4. CallerOK(d, caller[d])
    BY DEF IndexInv
  <2> QED  BY <2>2, <2>3, <2>4 DEF CallerOK, Pending, Covers, Shows
<1> QED  BY <1>2, <1>3, <1>4 DEF IndexInv, RefreshedShowsIt

-----------------------------------------------------------------------------
(* Who asks for a rebuild.                                                  *)

LEMMA RefreshStep ==
    ASSUME IndexInv, NEW c \in Callers, Refresh(c)
    PROVE  IndexInv'
<1> DEFINE new == [Free EXCEPT !.at = "wait", !.need = stored]
<1>1. /\ new \in CallerState /\ new.at = "wait" /\ new.need = stored
      /\ \A k \in Keys : new.rows[k] = 0
  BY FreeState DEF IndexInv, IndexTypeOK, CallerState, Free, NoRows
<1>2. stored' = stored /\ \A k \in Keys : stored[k] <= stored[k] /\ 0 <= stored[k]
  BY DEF Refresh, IndexInv, IndexTypeOK, IndexRows
<1>3. CallerOK(c, new)'
  BY <1>1, <1>2 DEF CallerOK
<1>4. Does(c, new) /\ rebuilds' \in Nat
  BY DEF Refresh, Asks, IndexInv, IndexTypeOK
<1> QED  BY <1>1, <1>3, <1>4, CallerMoves DEF Refresh, IndexInv, IndexTypeOK, RefreshedShowsIt

LEMMA SaveStatusStep ==
    ASSUME IndexInv, NEW c \in Callers, NEW k \in Keys, SaveStatus(c, k)
    PROVE  IndexInv'
<1> DEFINE need == [NoRows EXCEPT ![k] = stored'[k]]
           new == [Free EXCEPT !.at = "wait", !.need = need]
<1>1. /\ stored' \in IndexRows /\ stored \in IndexRows
      /\ \A j \in Keys : stored[j] <= stored'[j]
  BY DEF SaveStatus, IndexInv, IndexTypeOK, IndexRows
<1>2. need \in IndexRows /\ \A j \in Keys : need[j] <= stored'[j] /\ 0 <= stored'[j]
  BY <1>1 DEF NoRows, IndexRows
<1>3. /\ new \in CallerState /\ new.at = "wait" /\ new.need = need
      /\ \A j \in Keys : new.rows[j] = 0
  BY FreeState, <1>2 DEF CallerState, Free, NoRows
<1>4. caller' = [caller EXCEPT ![c] = new] /\ rebuilds' \in Nat
  BY DEF SaveStatus, Asks, Does, IndexInv, IndexTypeOK
<1>5. IndexTypeOK'
  BY <1>1, <1>3, <1>4 DEF SaveStatus, IndexInv, IndexTypeOK
<1>6. index' # NoDatabase => \A j \in Keys : index'[j] <= stored'[j]
  BY <1>1, IndexAssumption DEF SaveStatus, IndexInv, IndexTypeOK, IndexRows
<1>7. RefreshedShowsIt'
  BY DEF SaveStatus, IndexInv, RefreshedShowsIt
<1>8. ASSUME NEW d \in Callers PROVE CallerOK(d, caller[d])'
  <2>1. CASE d = c
    <3>1. caller'[d] = new
      BY <1>4, <2>1 DEF IndexInv, IndexTypeOK
    <3> QED  BY <1>2, <1>3, <3>1 DEF CallerOK
  <2>2. CASE d # c
    <3>1. caller'[d] = caller[d] /\ CallerOK(d, caller[d])
      BY <1>4, <2>2 DEF IndexInv, IndexTypeOK
    <3>2. caller[d].need \in IndexRows /\ caller[d].rows \in IndexRows
      BY DEF IndexInv, IndexTypeOK, CallerState
    <3>3. /\ \A j \in Keys : caller[d].need[j] <= stored'[j]
          /\ caller[d].at \in {"wait", "build"} => \A j \in Keys : caller[d].rows[j] <= stored'[j]
      BY <1>1, <3>1, <3>2 DEF CallerOK, IndexRows
    <3> QED  BY <3>1, <3>3 DEF SaveStatus, CallerOK, Pending, Covers, Shows
  <2> QED  BY <2>1, <2>2
<1> QED  BY <1>5, <1>6, <1>7, <1>8 DEF IndexInv

-----------------------------------------------------------------------------
(* The rebuild.                                                             *)

(* A caller's state, with the facts that hold of its fields.                *)
LEMMA CallerStateOf ==
    ASSUME IndexInv, NEW c \in Callers
    PROVE  /\ caller[c] \in CallerState
           /\ caller[c].need \in IndexRows /\ caller[c].rows \in IndexRows
           /\ CallerOK(c, caller[c])
           /\ stored \in IndexRows /\ index \in IndexRows \cup {NoDatabase}
           /\ holder \in Callers \cup {Nobody} /\ Nobody \notin Callers
BY IndexAssumption DEF IndexInv, IndexTypeOK, CallerState

LEMMA LocksStep ==
    ASSUME IndexInv, NEW c \in Callers, Locks(c)
    PROVE  IndexInv'
<1> DEFINE s == caller[c]
<1>0. PICK new : new = [s EXCEPT !.at = "build", !.folders = {FolderOf[k] : k \in Listed}]
  OBVIOUS
<1>1. /\ s \in CallerState /\ s.need \in IndexRows /\ s.rows \in IndexRows /\ CallerOK(c, s)
      /\ stored \in IndexRows /\ index \in IndexRows \cup {NoDatabase}
      /\ holder = Nobody /\ Nobody \notin Callers
  BY CallerStateOf DEF Locks, LockFree
<1>2. /\ new \in CallerState
        /\ new.at = "build" /\ new.need = s.need /\ new.rows = s.rows
        /\ new.folders = {FolderOf[k] : k \in Listed}
  BY <1>0, <1>1 DEF CallerState, Listed
<1>3. \A k \in Keys : Pending(new, k) \/ Covers(new, k)
  <2>1. ASSUME NEW k \in Keys, k \in Listed PROVE Pending(new, k)
    BY <1>2, <2>1 DEF Pending
  <2>2. ASSUME NEW k \in Keys, k \notin Listed PROVE Covers(new, k)
    <3>1. stored[k] = 0 /\ s.need[k] = 0
      BY <1>1, <2>2 DEF Listed, CallerOK, IndexRows
    <3>2. index # NoDatabase => index[k] = 0
      BY <1>1, <3>1 DEF IndexInv, IndexRows
    <3> QED  BY <1>1, <1>2, <3>1, <3>2 DEF Covers, IndexRows
  <2> QED  BY <2>1, <2>2
<1>4. CallerOK(c, new)'
  BY <1>1, <1>2, <1>3 DEF Locks, CallerOK, Pending, Covers
<1> QED  BY <1>0, <1>1, <1>2, <1>4, CallerMoves DEF Locks, IndexInv, IndexTypeOK, RefreshedShowsIt

LEMMA ListsStep ==
    ASSUME IndexInv, NEW c \in Callers, NEW f \in {FolderOf[k] : k \in Keys}, Lists(c, f)
    PROVE  IndexInv'
<1> DEFINE s == caller[c]
           of == {k \in Listed : FolderOf[k] = f}
<1>0. PICK new : new = [s EXCEPT !.folders = @ \ {f}, !.keys = of]
  OBVIOUS
<1>1. /\ s \in CallerState /\ s.need \in IndexRows /\ s.rows \in IndexRows /\ CallerOK(c, s)
      /\ stored \in IndexRows /\ index \in IndexRows \cup {NoDatabase}
      /\ s.at = "build" /\ s.keys = {}
  BY CallerStateOf DEF Lists
<1>2. /\ new \in CallerState
        /\ new.at = "build" /\ new.need = s.need /\ new.rows = s.rows
        /\ new.folders = s.folders \ {f} /\ new.keys = of /\ new.failed = s.failed
  BY <1>0, <1>1 DEF CallerState, Listed
<1>3. ASSUME NEW k \in Keys, ~new.failed, ~Pending(new, k) PROVE Covers(new, k)
  <2>1. CASE FolderOf[k] = f
    <3>1. stored[k] = 0 /\ s.need[k] = 0
      BY <1>1, <1>2, <1>3, <2>1 DEF Listed, CallerOK, IndexRows, Pending
    <3>2. index # NoDatabase => index[k] = 0
      BY <1>1, <3>1 DEF IndexInv, IndexRows
    <3> QED  BY <1>1, <1>2, <3>1, <3>2 DEF Covers, IndexRows
  <2>2. CASE FolderOf[k] # f
    <3>1. Covers(s, k)
      BY <1>1, <1>2, <1>3, <2>2 DEF CallerOK, Pending
    <3> QED  BY <1>2, <3>1 DEF Covers
  <2> QED  BY <2>1, <2>2
<1>4. CallerOK(c, new)'
  BY <1>1, <1>2, <1>3 DEF Lists, CallerOK, Pending, Covers
<1> QED  BY <1>0, <1>1, <1>2, <1>4, CallerMoves DEF Lists, IndexInv, IndexTypeOK, RefreshedShowsIt

LEMMA ReadsStep ==
    ASSUME IndexInv, NEW c \in Callers, NEW k \in Keys, Reads(c, k)
    PROVE  IndexInv'
<1> DEFINE s == caller[c]
<1>1. /\ s \in CallerState /\ s.need \in IndexRows /\ s.rows \in IndexRows /\ CallerOK(c, s)
      /\ stored \in IndexRows /\ index \in IndexRows \cup {NoDatabase}
      /\ s.at = "build"
  BY CallerStateOf DEF Reads
<1>2. CASE k \in unreadable
  <2>0. PICK refused : refused = [s EXCEPT !.keys = @ \ {k}, !.failed = TRUE]
    OBVIOUS
  <2>1. /\ refused \in CallerState
        /\ refused.at = "build" /\ refused.need = s.need
        /\ refused.rows = s.rows /\ refused.failed
    BY <1>1, <2>0 DEF CallerState
  <2>2. CallerOK(c, refused)'
    BY <1>1, <2>1 DEF Reads, CallerOK
  <2>3. Does(c, refused)
    BY <1>2, <2>0 DEF Reads
  <2> QED  BY <2>1, <2>2, <2>3, CallerMoves DEF Reads, IndexInv, IndexTypeOK, RefreshedShowsIt
<1>3. CASE k \notin unreadable
  <2>0. PICK row : row = [s EXCEPT !.keys = @ \ {k}, !.rows[k] = stored[k]]
    OBVIOUS
  <2>1. /\ row \in CallerState
        /\ row.at = "build" /\ row.need = s.need
        /\ row.folders = s.folders /\ row.keys = s.keys \ {k} /\ row.failed = s.failed
        /\ row.rows = [s.rows EXCEPT ![k] = stored[k]]
    BY <1>1, <2>0 DEF CallerState, IndexRows
  <2>2. /\ row.rows[k] = stored[k]
        /\ \A j \in Keys \ {k} : row.rows[j] = s.rows[j]
    BY <1>1, <2>1 DEF IndexRows
  <2>3. ASSUME NEW j \in Keys, ~row.failed, ~Pending(row, j) PROVE Covers(row, j)
    <3>1. CASE j = k
      BY <1>1, <2>1, <2>2, <3>1 DEF Covers, CallerOK, IndexInv, IndexRows
    <3>2. CASE j # k
      BY <1>1, <2>1, <2>2, <2>3, <3>2 DEF Covers, CallerOK, Pending
    <3> QED  BY <3>1, <3>2
  <2>4. \A j \in Keys : row.rows[j] <= stored[j]
    <3>1. stored[k] \in Nat /\ \A j \in Keys : s.rows[j] <= stored[j]
      BY <1>1 DEF CallerOK, IndexRows
    <3>2. ASSUME NEW j \in Keys PROVE row.rows[j] <= stored[j]
      <4>1. CASE j = k
        BY <2>2, <3>1, <4>1
      <4>2. CASE j # k
        BY <2>2, <3>1, <4>2
      <4> QED  BY <4>1, <4>2
    <3> QED  BY <3>2
  <2>5. CallerOK(c, row)'
    BY <1>1, <2>1, <2>3, <2>4 DEF Reads, CallerOK, Pending, Covers
  <2>6. Does(c, row)
    BY <1>3, <2>0 DEF Reads
  <2> QED  BY <2>1, <2>5, <2>6, CallerMoves DEF Reads, IndexInv, IndexTypeOK, RefreshedShowsIt
<1> QED  BY <1>2, <1>3

(* The database that replaces the other is nowhere older, and the only one  *)
(* who may replace it again holds the lock.                                 *)
LEMMA ReplacementIsNewer ==
    ASSUME IndexInv, NEW c \in Callers, Replaces(c)
    PROVE  /\ index' \in IndexRows /\ index' = caller[c].rows
           /\ \A k \in Keys : index'[k] >= caller[c].need[k] /\ index'[k] <= stored[k]
           /\ index # NoDatabase => \A k \in Keys : index'[k] >= index[k]
<1>1. CallerOK(c, caller[c]) /\ caller[c].rows \in IndexRows
  BY CallerStateOf
<1>2. \A k \in Keys : ~Pending(caller[c], k)
  BY DEF Replaces, Listing, Pending
<1> QED  BY <1>1, <1>2 DEF Replaces, Listing, CallerOK, Covers

LEMMA ReplacesStep ==
    ASSUME IndexInv, NEW c \in Callers, Replaces(c)
    PROVE  IndexInv'
<1> DEFINE s == caller[c]
           new == [s EXCEPT !.at = "replaced"]
<1>1. /\ s \in CallerState /\ CallerOK(c, s) /\ s.at = "build" /\ holder = c
      /\ index' \in IndexRows /\ index' # NoDatabase
  BY CallerStateOf, ReplacementIsNewer, IndexAssumption DEF Replaces, Listing, CallerOK, IndexRows
<1>2. new \in CallerState /\ new.at = "replaced" /\ new.need = s.need
  BY <1>1 DEF CallerState
<1>3. caller' = [caller EXCEPT ![c] = new] /\ caller \in [Callers -> CallerState]
  BY DEF Replaces, Does, IndexInv, IndexTypeOK
<1>4. IndexTypeOK'
  BY <1>1, <1>2, <1>3 DEF Replaces, IndexInv, IndexTypeOK
<1>5. /\ index' # NoDatabase => \A k \in Keys : index'[k] <= stored'[k]
  BY ReplacementIsNewer DEF Replaces
<1>6. RefreshedShowsIt'
  BY <1>1, ReplacementIsNewer DEF Replaces, IndexInv, IndexTypeOK, RefreshedShowsIt, IndexRows
<1>7. ASSUME NEW d \in Callers PROVE CallerOK(d, caller[d])'
  <2>1. CASE d = c
    <3>1. caller'[d] = new
      BY <1>3, <2>1
    <3> QED
      BY <1>1, <1>2, <2>1, <3>1, ReplacementIsNewer DEF Replaces, CallerOK, Shows
  <2>2. CASE d # c
    <3>1. caller'[d] = caller[d] /\ CallerOK(d, caller[d]) /\ caller[d].need \in IndexRows
      BY <1>3, <2>2, CallerStateOf
    <3>2. caller[d].at \notin {"build", "replaced"}
      BY <1>1, <2>2, <3>1 DEF CallerOK
    <3>3. Shows(caller[d]) => Shows(caller[d])'
      BY <1>1, <3>1, ReplacementIsNewer DEF Shows, IndexInv, IndexTypeOK, IndexRows
    <3> QED  BY <3>1, <3>2, <3>3 DEF Replaces, CallerOK, Shows
  <2> QED  BY <2>1, <2>2
<1> QED  BY <1>4, <1>5, <1>6, <1>7 DEF IndexInv

LEMMA FailsStep ==
    ASSUME IndexInv, NEW c \in Callers, Fails(c)
    PROVE  IndexInv'
<1>1. CallerOK(c, Free)'
  BY FreeState DEF Fails, CallerOK, Free, NoRows, IndexInv, IndexTypeOK, IndexRows
<1>2. holder' \in Callers \cup {Nobody} /\ \A d \in Callers \ {c} : holder = d => holder' = d
  BY DEF Fails, LetsGo, IndexInv, IndexTypeOK
<1> QED
  BY <1>1, <1>2, FreeState, CallerMoves DEF Fails, IndexInv, IndexTypeOK, RefreshedShowsIt

LEMMA UnlocksStep ==
    ASSUME IndexInv, NEW c \in Callers, Unlocks(c)
    PROVE  IndexInv'
<1>0. PICK new : new = [caller[c] EXCEPT !.at = "answer"]
  OBVIOUS
<1>1. caller[c] \in CallerState /\ CallerOK(c, caller[c]) /\ caller[c].at = "replaced"
  BY CallerStateOf DEF Unlocks
<1>2. /\ new \in CallerState
        /\ new.at = "answer" /\ new.need = caller[c].need
  BY <1>0, <1>1 DEF CallerState
<1>3. CallerOK(c, new)'
  BY <1>1, <1>2 DEF Unlocks, CallerOK, Shows
<1>4. holder' \in Callers \cup {Nobody} /\ \A d \in Callers \ {c} : holder = d => holder' = d
  BY DEF Unlocks, LetsGo, IndexInv, IndexTypeOK
<1> QED  BY <1>0, <1>2, <1>3, <1>4, CallerMoves DEF Unlocks, IndexInv, IndexTypeOK, RefreshedShowsIt

LEMMA AnswersStep ==
    ASSUME IndexInv, NEW c \in Callers, Answers(c)
    PROVE  IndexInv'
<1>1. /\ caller[c].need \in IndexRows /\ promised \in IndexRows /\ CallerOK(c, caller[c])
      /\ index \in IndexRows \cup {NoDatabase} /\ Shows(caller[c])
  BY CallerStateOf DEF Answers, CallerOK, IndexInv, IndexTypeOK
<1>2. promised' \in IndexRows
  BY <1>1 DEF Answers, IndexRows
<1>3. RefreshedShowsIt'
  BY <1>1 DEF Answers, IndexInv, RefreshedShowsIt, Shows, IndexRows
<1>4. CallerOK(c, Free)'
  BY FreeState DEF Answers, CallerOK, Free, NoRows, IndexInv, IndexTypeOK, IndexRows
<1> QED  BY <1>2, <1>3, <1>4, FreeState, CallerMoves DEF Answers, IndexInv, IndexTypeOK

(* A process that dies lets its lock go and leaves the rest alone.          *)
LEMMA ProcessDiesStep ==
    ASSUME IndexInv, NEW P \in Processes, ProcessDies(P)
    PROVE  IndexInv'
<1>1. /\ caller \in [Callers -> CallerState]
      /\ caller' \in [Callers -> CallerState]
      /\ \A d \in Callers : caller'[d] = IF d \in P THEN Free ELSE caller[d]
  BY FreeState DEF ProcessDies, IndexInv, IndexTypeOK
<1>2. IndexTypeOK'
  BY <1>1, IndexAssumption DEF ProcessDies, IndexInv, IndexTypeOK
<1>3. ASSUME NEW d \in Callers PROVE CallerOK(d, caller[d])'
  <2>1. CASE d \in P
    BY <1>1, <2>1, FreeState DEF ProcessDies, CallerOK, Free, NoRows, IndexInv, IndexTypeOK, IndexRows
  <2>2. CASE d \notin P
    <3>1. caller'[d] = caller[d] /\ CallerOK(d, caller[d]) /\ (holder = d => holder' = d)
      BY <1>1, <2>2 DEF ProcessDies, IndexInv
    <3> QED  BY <3>1 DEF ProcessDies, CallerOK, Pending, Covers, Shows
  <2> QED  BY <2>1, <2>2
<1> QED  BY <1>2, <1>3 DEF ProcessDies, IndexInv, RefreshedShowsIt

-----------------------------------------------------------------------------
LEMMA IndexNextHolds == IndexInv /\ [IndexNext]_indexVars => IndexInv'
<1> SUFFICES ASSUME IndexInv, [IndexNext]_indexVars PROVE IndexInv'
  OBVIOUS
<1>1. CASE UNCHANGED indexVars
  BY <1>1 DEF indexVars, IndexInv, IndexTypeOK, RefreshedShowsIt, CallerOK, Pending, Covers, Shows
<1>2. ASSUME NEW c \in Callers, Refresh(c) PROVE IndexInv'
  BY <1>2, RefreshStep
<1>3. ASSUME NEW c \in Callers, Rebuild(c) PROVE IndexInv'
  <2>1. CASE Locks(c)
    BY <2>1, LocksStep
  <2>2. CASE \E f \in {FolderOf[k] : k \in Keys} : Lists(c, f)
    BY <2>2, ListsStep
  <2>3. CASE \E k \in Keys : Reads(c, k)
    BY <2>3, ReadsStep
  <2>4. CASE Replaces(c)
    BY <2>4, ReplacesStep
  <2>5. CASE Fails(c)
    BY <2>5, FailsStep
  <2>6. CASE Unlocks(c)
    BY <2>6, UnlocksStep
  <2>7. CASE Answers(c)
    BY <2>7, AnswersStep
  <2> QED  BY <1>3, <2>1, <2>2, <2>3, <2>4, <2>5, <2>6, <2>7 DEF Rebuild
<1>4. ASSUME NEW c \in Callers, NEW k \in Keys, SaveStatus(c, k) PROVE IndexInv'
  BY <1>4, SaveStatusStep
<1>5. ASSUME NEW k \in Keys, RecordWritten(k) PROVE IndexInv'
  BY <1>5, RecordAdvances DEF RecordWritten, IndexInv, IndexTypeOK
<1>6. ASSUME NEW k \in Keys, Unfinished(k) PROVE IndexInv'
  BY <1>6, RecordAdvances DEF Unfinished, IndexInv, IndexTypeOK
<1>7. ASSUME NEW P \in Processes, ProcessDies(P) PROVE IndexInv'
  BY <1>7, ProcessDiesStep
<1> QED  BY <1>1, <1>2, <1>3, <1>4, <1>5, <1>6, <1>7 DEF IndexNext

THEOREM IndexInvariant == IndexSpec => []IndexInv
BY IndexInitHolds, IndexNextHolds, PTL DEF IndexSpec

(* Every variable keeps its type.                                           *)
THEOREM IndexTypeCorrect == IndexSpec => []IndexTypeOK
<1>1. IndexInv => IndexTypeOK
  BY DEF IndexInv
<1> QED  BY <1>1, IndexInvariant, PTL

(* Only one caller builds a database at a time: rebuild, _locked_rebuild.   *)
Building == {c \in Callers : caller[c].at \in {"build", "replaced"}}

THEOREM OneBuilder == IndexSpec => [](\A c, d \in Building : c = d)
<1>1. IndexInv => \A c, d \in Building : c = d
  BY DEF IndexInv, CallerOK, Building
<1> QED  BY <1>1, IndexInvariant, PTL

(* Whoever was told that the index is refreshed finds in it what had been   *)
(* saved when they asked, from then on: do_PATCH, _search, rebuild.         *)
THEOREM RefreshesShow == IndexSpec => []RefreshedShowsIt
<1>1. IndexInv => RefreshedShowsIt
  BY DEF IndexInv
<1> QED  BY <1>1, IndexInvariant, PTL

(* A database is only ever replaced by one that is nowhere older, and stays *)
(* while a rebuild fails: rebuild.                                          *)
THEOREM DatabaseAdvances == IndexSpec => IndexAdvances
<1>1. IndexInv /\ [IndexNext]_indexVars =>
        [index # NoDatabase => \A k \in Keys : index'[k] >= index[k]]_indexVars
  <2> SUFFICES ASSUME IndexInv, IndexNext, index # NoDatabase, NEW k \in Keys
               PROVE  index'[k] >= index[k]
    BY DEF indexVars
  <2>1. ASSUME NEW c \in Callers, Replaces(c) PROVE index'[k] >= index[k]
    BY <2>1, ReplacementIsNewer
  <2>2. CASE index' = index
    BY <2>2 DEF IndexInv, IndexTypeOK, IndexRows
  <2> QED
    BY <2>1, <2>2 DEF IndexNext, Refresh, Asks, SaveStatus, Rebuild, Locks, Lists, Reads,
       Fails, Unlocks, Answers, RecordWritten, Unfinished, ProcessDies
<1> QED  BY <1>1, IndexInvariant, PTL DEF IndexSpec, IndexAdvances

-----------------------------------------------------------------------------
(* Machine-checked proofs about CompanyInfo, for any number of writers and  *)
(* facts.  A writer between its digest comparison and its replacement holds *)
(* the lock, so the file is the one it compared unless somebody wrote it    *)
(* without the lock; and what an enrichment wants holds every fact above    *)
(* the rule line of the file it was built from that it can write.           *)

Content == SUBSET (Fact \cup {RiskFlags})
CompanyFile == [above : Content, behind : Content, titled : BOOLEAN]
MaybeFile == CompanyFile \cup {NoFile}

WriterState == [at : {"idle", "lock", "read", "stage", "replace", "open", "write"},
          wanted : SUBSET Fact, titled : BOOLEAN, footed : BOOLEAN,
          expected : MaybeFile, seen : MaybeFile,
          enriches : BOOLEAN, disturbed : BOOLEAN]

(* _merge_company_markdown, of a writer's local state                       *)
MergedOf(l) ==
    LET Replaced(f) == HasSection(l.wanted, f)
        Lands(g) == HasSection(l.seen.above, g) \/ ~HasSection(l.seen.behind, g) IN
    IF l.seen = NoFile
    THEN [above |-> l.wanted, behind |-> {}, titled |-> l.titled]
    ELSE [titled |-> l.seen.titled,
          above |-> {g \in l.wanted : Lands(g)} \cup {f \in l.seen.above : ~Replaced(f)},
          behind |-> IF l.footed THEN {}
                     ELSE {g \in l.wanted : ~Lands(g)}
                          \cup {f \in l.seen.behind : Replaced(f) => HasSection(l.seen.above, f)}]

Locked(l) == l.at \in {"read", "stage", "replace"}
Compared(l) == l.at \in {"stage", "replace"}

(* What holds of one writer: l its state, h its stage, f the file, k the    *)
(* holder of the lock.                                                      *)
Good(w, l, h, f, k) ==
    /\ Locked(l) => k = w
    /\ Compared(l) /\ ~l.disturbed => f = l.seen
    /\ Compared(l) /\ l.expected # NoFile => l.seen = l.expected
    /\ l.enriches /\ l.expected # NoFile => l.expected.above \cap Rendered \subseteq l.wanted
    /\ l.at = "replace" => h = MergedOf(l)
    /\ l.at \in {"open", "write"} => l.seen \in CompanyFile

CompanyTypeOK ==
    /\ file \in MaybeFile
    /\ hidden \in [Writer -> MaybeFile]
    /\ writer \in [Writer -> WriterState]

CompanyInv == CompanyTypeOK /\ \A w \in Writer : Good(w, writer[w], hidden[w], file, lock)

-----------------------------------------------------------------------------
LEMMA QuietIsLocal == Quiet \in WriterState /\ ~Locked(Quiet) /\ ~Compared(Quiet)
BY DEF Quiet, WriterState, MaybeFile, Locked, Compared

LEMMA QuietIsGood ==
    ASSUME NEW w, NEW h, NEW f, NEW k
    PROVE  Good(w, Quiet, h, f, k)
BY DEF Good, Quiet, Locked, Compared

LEMMA MergedIsFile ==
    ASSUME NEW l \in WriterState
    PROVE  MergedOf(l) \in CompanyFile
<1>1. CASE l.seen = NoFile
  BY <1>1 DEF MergedOf, WriterState, CompanyFile, Content
<1>2. CASE l.seen # NoFile
  <2>1. l.seen \in CompanyFile /\ l.wanted \subseteq Fact
    BY <1>2 DEF WriterState, MaybeFile
  <2> QED  BY <1>2, <2>1 DEF MergedOf, CompanyFile, Content
<1> QED  BY <1>1, <1>2

(* A step of one writer: its new state is good, and what it does to the     *)
(* file, the lock and the stages leaves the others good.                    *)
LEMMA OneWriter ==
    ASSUME CompanyInv, NEW CONSTANT w \in Writer, NEW CONSTANT l \in WriterState,
           writer' = [writer EXCEPT ![w] = l],
           file' \in MaybeFile, hidden' \in [Writer -> MaybeFile],
           Good(w, l, hidden'[w], file', lock'),
           \A v \in Writer : v # w => Good(v, writer[v], hidden'[v], file', lock')
    PROVE  CompanyInv'
<1>1. /\ writer' \in [Writer -> WriterState] /\ writer'[w] = l
      /\ \A v \in Writer : v # w => writer'[v] = writer[v]
  BY DEF CompanyInv, CompanyTypeOK
<1>2. \A v \in Writer : Good(v, writer'[v], hidden'[v], file', lock')
  BY <1>1
<1> QED  BY <1>1, <1>2 DEF CompanyInv, CompanyTypeOK

(* Nothing but the writer's state changes.                                  *)
LEMMA OnlyLocal ==
    ASSUME CompanyInv, NEW CONSTANT w \in Writer, NEW CONSTANT l \in WriterState,
           writer' = [writer EXCEPT ![w] = l],
           UNCHANGED <<file, hidden>>, lock' = lock \/ (lock = w /\ ~Locked(l)),
           Good(w, l, hidden[w], file, lock')
    PROVE  CompanyInv'
<1>1. \A v \in Writer : v # w => Good(v, writer[v], hidden[v], file, lock')
  BY DEF CompanyInv, Good
<1>2. file' \in MaybeFile /\ hidden' \in [Writer -> MaybeFile]
  BY DEF CompanyInv, CompanyTypeOK
<1> QED  BY <1>1, <1>2, OneWriter

LEMMA Stops ==
    ASSUME CompanyInv, NEW CONSTANT w \in Writer, At(w, Quiet), Unlock(w), UNCHANGED <<file, hidden>>
    PROVE  CompanyInv'
<1>1. lock' = lock \/ (lock = w /\ ~Locked(Quiet))
  BY QuietIsLocal DEF Unlock
<1>2. Good(w, Quiet, hidden[w], file, lock')
  BY QuietIsGood
<1> QED  BY <1>1, <1>2, QuietIsLocal, OnlyLocal DEF At

LEMMA CallKeeps ==
    ASSUME CompanyInv, NEW CONSTANT w \in Writer, Enrich(w) \/ CompanyApply(w) \/ FixRead(w)
    PROVE  CompanyInv'
<1>1. file \in MaybeFile
  BY DEF CompanyInv, CompanyTypeOK
<1>2. CASE Enrich(w)
  <2>1. PICK fetched \in SUBSET Fact :
           At(w, [Quiet EXCEPT !.at = "lock", !.expected = file, !.enriches = TRUE,
                     !.wanted = Rendered \cap (fetched \cup Parsed)])
    BY <1>2 DEF Enrich
  <2>2. PICK wanted : wanted = Rendered \cap (fetched \cup Parsed)
    OBVIOUS
  <2>3. wanted \in SUBSET Fact /\ (file # NoFile => file.above \cap Rendered \subseteq wanted)
    BY <2>2, CompanyAssumption DEF Parsed
  <2>4. PICK l : l = [Quiet EXCEPT !.at = "lock", !.expected = file, !.enriches = TRUE,
                                   !.wanted = wanted]
    OBVIOUS
  <2>5. l \in WriterState /\ l.at = "lock" /\ l.expected = file /\ l.wanted = wanted
    BY <1>1, <2>3, <2>4 DEF Quiet, WriterState, MaybeFile
  <2>6. Good(w, l, hidden[w], file, lock)
    BY <2>3, <2>5 DEF Good, Locked, Compared
  <2>7. writer' = [writer EXCEPT ![w] = l] /\ UNCHANGED <<file, hidden, lock>>
    BY <1>2, <2>1, <2>2, <2>4 DEF Enrich, At
  <2> QED  BY <2>5, <2>6, <2>7, OnlyLocal
<1>3. CASE CompanyApply(w)
  <2>1. PICK candidate \in Submitted, expected \in {NoFile, file} :
           At(w, [Quiet EXCEPT !.at = "lock", !.expected = expected, !.wanted = candidate.facts,
                               !.titled = candidate.titled, !.footed = candidate.footed])
    BY <1>3 DEF CompanyApply
  <2>2. PICK l : l = [Quiet EXCEPT !.at = "lock", !.expected = expected,
                        !.wanted = candidate.facts, !.titled = candidate.titled,
                        !.footed = candidate.footed]
    OBVIOUS
  <2>3. /\ candidate.facts \in SUBSET Fact /\ candidate.titled \in BOOLEAN
        /\ candidate.footed \in BOOLEAN
    BY <2>1, CompanyAssumption
  <2>6. l \in WriterState /\ l.at = "lock" /\ ~l.enriches
    BY <1>1, <2>1, <2>2, <2>3 DEF Quiet, WriterState, MaybeFile
  <2>4. Good(w, l, hidden[w], file, lock)
    BY <2>6 DEF Good, Locked, Compared
  <2>5. writer' = [writer EXCEPT ![w] = l] /\ UNCHANGED <<file, hidden, lock>>
    BY <1>3, <2>1, <2>2 DEF CompanyApply, At
  <2> QED  BY <2>6, <2>4, <2>5, OnlyLocal
<1>4. CASE FixRead(w)
  <2>1. PICK l : l = [Quiet EXCEPT !.at = "open", !.seen = file]
    OBVIOUS
  <2>2. l \in WriterState /\ l.at = "open" /\ ~l.enriches /\ l.seen = file
    BY <1>1, <2>1 DEF Quiet, WriterState, MaybeFile
  <2>3. Good(w, l, hidden[w], file, lock)
    BY <1>1, <1>4, <2>2 DEF Good, Locked, Compared, FixRead, MaybeFile
  <2>4. writer' = [writer EXCEPT ![w] = l] /\ UNCHANGED <<file, hidden, lock>>
    BY <1>4, <2>1 DEF FixRead, At
  <2> QED  BY <2>2, <2>3, <2>4, OnlyLocal
<1> QED  BY <1>2, <1>3, <1>4

(* Taking the lock removes stages; while it was free no writer had one.     *)
LEMMA LockKeeps ==
    ASSUME CompanyInv, NEW CONSTANT w \in Writer, Lock(w)
    PROVE  CompanyInv'
<1>1. CASE lock = NoFile
  <2>1. PICK l : l = [writer[w] EXCEPT !.at = "read"]
    OBVIOUS
  <2>2. writer[w] \in WriterState /\ Good(w, writer[w], hidden[w], file, lock)
    BY DEF CompanyInv, CompanyTypeOK
  <2>3. /\ l \in WriterState /\ l.at = "read"
        /\ l.expected = writer[w].expected /\ l.enriches = writer[w].enriches
        /\ l.wanted = writer[w].wanted
    BY <2>1, <2>2 DEF WriterState
  <2>4. /\ writer' = [writer EXCEPT ![w] = l] /\ lock' = w /\ file' = file
        /\ hidden' = [v \in Writer |-> NoFile]
    BY <1>1, <2>1 DEF Lock, At
  <2>5. Good(w, l, hidden'[w], file', lock')
    BY <2>2, <2>3, <2>4 DEF Good, Locked, Compared
  <2>6. ASSUME NEW v \in Writer, v # w
        PROVE  Good(v, writer[v], hidden'[v], file', lock')
    <3>1. Good(v, writer[v], hidden[v], file, lock) /\ ~Locked(writer[v])
      BY <1>1, CompanyAssumption DEF CompanyInv, Good
    <3> QED  BY <2>4, <3>1 DEF Good, Locked, Compared
  <2>7. file' \in MaybeFile /\ hidden' \in [Writer -> MaybeFile]
    BY <2>4 DEF CompanyInv, CompanyTypeOK, MaybeFile
  <2> QED  BY <2>3, <2>4, <2>5, <2>6, <2>7, OneWriter
<1>2. CASE lock # NoFile
  <2>1. At(w, Quiet) /\ UNCHANGED <<file, hidden, lock>>
    BY <1>2 DEF Lock
  <2> QED  BY <2>1, QuietIsLocal, QuietIsGood, OnlyLocal DEF At
<1> QED  BY <1>1, <1>2

LEMMA ReadKeeps ==
    ASSUME CompanyInv, NEW CONSTANT w \in Writer, Read(w)
    PROVE  CompanyInv'
<1>1. CASE writer[w].expected \notin {NoFile, file}
  BY <1>1, Stops DEF Read
<1>2. CASE writer[w].expected \in {NoFile, file}
  <2>1. PICK l : l = [writer[w] EXCEPT !.at = "stage", !.seen = file]
    OBVIOUS
  <2>2. /\ writer[w] \in WriterState /\ file \in MaybeFile
        /\ Good(w, writer[w], hidden[w], file, lock) /\ writer[w].at = "read"
    BY DEF CompanyInv, CompanyTypeOK, Read
  <2>3. /\ l \in WriterState /\ l.at = "stage" /\ l.seen = file
        /\ l.expected = writer[w].expected /\ l.enriches = writer[w].enriches
        /\ l.wanted = writer[w].wanted
    BY <2>1, <2>2 DEF WriterState
  <2>4. Good(w, l, hidden[w], file, lock)
    BY <1>2, <2>2, <2>3 DEF Good, Locked, Compared
  <2>5. writer' = [writer EXCEPT ![w] = l] /\ UNCHANGED <<file, hidden, lock>>
    BY <1>2, <2>1 DEF Read, At
  <2> QED  BY <2>3, <2>4, <2>5, OnlyLocal
<1> QED  BY <1>1, <1>2

LEMMA StageKeeps ==
    ASSUME CompanyInv, NEW CONSTANT w \in Writer, Stage(w)
    PROVE  CompanyInv'
<1>1. CASE ~Merged(w).titled
  BY <1>1, Stops DEF Stage
<1>2. CASE Merged(w).titled
  <2>1. PICK l, h : l = [writer[w] EXCEPT !.at = "replace"] /\ h = MergedOf(writer[w])
    OBVIOUS
  <2>2. /\ writer[w] \in WriterState /\ file \in MaybeFile /\ hidden \in [Writer -> MaybeFile]
        /\ Good(w, writer[w], hidden[w], file, lock) /\ writer[w].at = "stage"
    BY DEF CompanyInv, CompanyTypeOK, Stage
  <2>3. /\ l \in WriterState /\ l.at = "replace" /\ l.seen = writer[w].seen
        /\ l.titled = writer[w].titled /\ l.footed = writer[w].footed
        /\ l.disturbed = writer[w].disturbed
        /\ l.expected = writer[w].expected /\ l.enriches = writer[w].enriches
        /\ l.wanted = writer[w].wanted
    BY <2>1, <2>2 DEF WriterState
  <2>4. h \in MaybeFile /\ h = MergedOf(l)
    BY <2>1, <2>2, <2>3, MergedIsFile DEF MergedOf, MaybeFile
  <2>5. Good(w, l, h, file, lock)
    BY <2>2, <2>3, <2>4 DEF Good, Locked, Compared
  <2>6. /\ writer' = [writer EXCEPT ![w] = l] /\ UNCHANGED <<file, lock>>
        /\ hidden' = [hidden EXCEPT ![w] = h]
    BY <1>2, <2>1 DEF Stage, At, Merged, MergedOf
  <2>7. /\ hidden' \in [Writer -> MaybeFile] /\ hidden'[w] = h
        /\ \A v \in Writer : v # w => hidden'[v] = hidden[v]
    BY <2>2, <2>4, <2>6
  <2>8. \A v \in Writer : v # w => Good(v, writer[v], hidden'[v], file', lock')
    BY <2>6, <2>7 DEF CompanyInv
  <2> QED  BY <2>2, <2>3, <2>5, <2>6, <2>7, <2>8, OneWriter
<1> QED  BY <1>1, <1>2

(* Whoever replaces the file holds the lock, so no other writer compared.   *)
LEMMA ReplaceKeeps ==
    ASSUME CompanyInv, NEW CONSTANT w \in Writer, Replace(w)
    PROVE  CompanyInv'
<1>1. /\ file \in MaybeFile /\ hidden \in [Writer -> MaybeFile] /\ lock = w
  BY DEF CompanyInv, CompanyTypeOK, Replace, Good, Locked
<1>2. /\ writer' = [writer EXCEPT ![w] = Quiet]
      /\ hidden' = [v \in Writer |-> NoFile] /\ file' \in {file, hidden[w]}
  BY DEF Replace, At
<1>3. file' \in MaybeFile /\ hidden' \in [Writer -> MaybeFile]
  BY <1>1, <1>2 DEF MaybeFile
<1>4. ASSUME NEW v \in Writer, v # w
      PROVE  Good(v, writer[v], hidden'[v], file', lock')
  <2>1. Good(v, writer[v], hidden[v], file, lock) /\ ~Locked(writer[v])
    BY <1>1, <1>4 DEF CompanyInv, Good
  <2> QED  BY <2>1 DEF Good, Locked, Compared
<1> QED  BY <1>2, <1>3, <1>4, QuietIsLocal, QuietIsGood, OneWriter

(* The file is written without the lock: who compared it is disturbed.      *)
LEMMA DisturbedKeeps ==
    ASSUME CompanyInv, UNCHANGED <<lock, hidden>>, file' \in MaybeFile,
           writer' \in [Writer -> WriterState],
           \A v \in Writer :
              IF Compared(writer[v]) THEN writer'[v] = [writer[v] EXCEPT !.disturbed = TRUE]
              ELSE Good(v, writer'[v], hidden[v], file', lock)
    PROVE  CompanyInv'
<1>1. ASSUME NEW CONSTANT v \in Writer, Compared(writer[v])
      PROVE  Good(v, writer'[v], hidden[v], file', lock)
  <2>1. PICK l, old : l = writer'[v] /\ old = writer[v]
    OBVIOUS
  <2>2. old \in WriterState /\ Good(v, old, hidden[v], file, lock)
    BY <2>1 DEF CompanyInv, CompanyTypeOK
  <2>3. /\ l.disturbed /\ l.at = old.at /\ l.seen = old.seen /\ l.titled = old.titled
        /\ l.footed = old.footed
        /\ l.expected = old.expected /\ l.enriches = old.enriches /\ l.wanted = old.wanted
    BY <1>1, <2>1, <2>2 DEF WriterState
  <2>4. Good(v, l, hidden[v], file', lock)
    BY <1>1, <2>1, <2>2, <2>3 DEF Good, Locked, Compared, MergedOf
  <2> QED  BY <2>1, <2>4
<1>2. \A v \in Writer : Good(v, writer'[v], hidden'[v], file', lock')
  BY <1>1
<1> QED  BY <1>2 DEF CompanyInv, CompanyTypeOK

LEMMA DisturbsOthers ==
    ASSUME CompanyInv, UNCHANGED <<lock, hidden>>, file' \in MaybeFile,
           NEW CONSTANT w \in Writer, ~Compared(writer[w]), NEW CONSTANT l \in WriterState,
           Good(w, l, hidden[w], file', lock),
           writer' = Disturbed([writer EXCEPT ![w] = l])
    PROVE  CompanyInv'
<1>1. writer \in [Writer -> WriterState]
  BY DEF CompanyInv, CompanyTypeOK
<1>2. PICK local : local = [writer EXCEPT ![w] = l]
  OBVIOUS
<1>3. /\ local \in [Writer -> WriterState] /\ local[w] = l
      /\ \A v \in Writer : v # w => local[v] = writer[v]
  BY <1>1, <1>2
<1>4. writer' = [v \in Writer |-> IF Compared(writer[v])
                                  THEN [writer[v] EXCEPT !.disturbed = TRUE] ELSE local[v]]
  BY <1>2 DEF Disturbed, Compared
<1>5. \A v \in Writer : [writer[v] EXCEPT !.disturbed = TRUE] \in WriterState
  BY <1>1 DEF WriterState
<1>6. writer' \in [Writer -> WriterState]
  BY <1>3, <1>4, <1>5
<1>7. ASSUME NEW v \in Writer, ~Compared(writer[v])
      PROVE  Good(v, local[v], hidden[v], file', lock)
  BY <1>3, <1>7 DEF CompanyInv, Good
<1>8. \A v \in Writer :
         IF Compared(writer[v]) THEN writer'[v] = [writer[v] EXCEPT !.disturbed = TRUE]
         ELSE Good(v, writer'[v], hidden[v], file', lock)
  BY <1>4, <1>7
<1> QED  BY <1>6, <1>8, DisturbedKeeps

LEMMA FixKeeps ==
    ASSUME CompanyInv, NEW CONSTANT w \in Writer, FixOpen(w) \/ FixWrite(w)
    PROVE  CompanyInv'
<1>1. writer[w] \in WriterState /\ Good(w, writer[w], hidden[w], file, lock)
  BY DEF CompanyInv, CompanyTypeOK
<1>2. CASE FixOpen(w)
  <2>1. PICK l : l = [writer[w] EXCEPT !.at = "write"]
    OBVIOUS
  <2>2. /\ l \in WriterState /\ l.at = "write" /\ l.seen = writer[w].seen
        /\ l.expected = writer[w].expected /\ l.enriches = writer[w].enriches
        /\ l.wanted = writer[w].wanted
    BY <1>1, <2>1 DEF WriterState
  <2>3. Good(w, l, hidden[w], file', lock) /\ ~Compared(writer[w])
    BY <1>1, <1>2, <2>2 DEF Good, Locked, Compared, FixOpen
  <2>4. file' \in MaybeFile
    BY <1>2 DEF FixOpen, MaybeFile, CompanyFile, Content
  <2>5. writer' = Disturbed([writer EXCEPT ![w] = l]) /\ UNCHANGED <<lock, hidden>>
    BY <1>2, <2>1 DEF FixOpen
  <2> QED  BY <2>2, <2>3, <2>4, <2>5, DisturbsOthers
<1>3. CASE FixWrite(w)
  <2>1. writer[w].seen \in CompanyFile /\ ~Compared(writer[w])
    BY <1>1, <1>3 DEF Good, FixWrite, Compared
  <2>2. file' \in MaybeFile
    BY <1>3, <2>1 DEF FixWrite, MaybeFile, CompanyFile, Content
  <2>3. writer' = Disturbed([writer EXCEPT ![w] = Quiet]) /\ UNCHANGED <<lock, hidden>>
    BY <1>3 DEF FixWrite
  <2> QED  BY <2>1, <2>2, <2>3, QuietIsLocal, QuietIsGood, DisturbsOthers
<1> QED  BY <1>2, <1>3

LEMMA UserKeeps ==
    ASSUME CompanyInv, UserEdits
    PROVE  CompanyInv'
<1>1. /\ writer \in [Writer -> WriterState] /\ UNCHANGED <<lock, hidden>>
      /\ file' \in MaybeFile
  BY CompanyAssumption DEF CompanyInv, CompanyTypeOK, UserEdits, MaybeFile, CompanyFile, Content
<1>2. writer' = [v \in Writer |-> IF Compared(writer[v])
                                  THEN [writer[v] EXCEPT !.disturbed = TRUE] ELSE writer[v]]
  BY DEF UserEdits, Disturbed, Compared
<1>3. \A v \in Writer : [writer[v] EXCEPT !.disturbed = TRUE] \in WriterState
  BY <1>1 DEF WriterState
<1>4. writer' \in [Writer -> WriterState]
  BY <1>1, <1>2, <1>3
<1>5. \A v \in Writer : ~Compared(writer[v]) => Good(v, writer[v], hidden[v], file', lock)
  BY DEF CompanyInv, Good
<1> QED  BY <1>1, <1>2, <1>4, <1>5, DisturbedKeeps

(* CompanyInv is an invariant of the company file and its writers (apply_candidate,*)
(* enrich, validate --fix).                                                 *)
THEOREM CompanyInvariant == CompanySpec => []CompanyInv
<1>1. CompanyInit => CompanyInv
  BY QuietIsLocal, QuietIsGood DEF CompanyInit, CompanyInv, CompanyTypeOK, MaybeFile
<1>2. CompanyInv /\ [CompanyNext]_companyVars => CompanyInv'
  <2> SUFFICES ASSUME CompanyInv, [CompanyNext]_companyVars PROVE CompanyInv'
    OBVIOUS
  <2>1. ASSUME NEW CONSTANT w \in Writer, Writes(w) PROVE CompanyInv'
    <3>1. CASE Enrich(w) \/ CompanyApply(w) \/ FixRead(w)
      BY <3>1, CallKeeps
    <3>2. CASE FixOpen(w) \/ FixWrite(w)
      BY <3>2, FixKeeps
    <3>3. CASE WriterDies(w)
      BY <3>3, Stops DEF WriterDies
    <3> QED  BY <2>1, <3>1, <3>2, <3>3, LockKeeps, ReadKeeps, StageKeeps, ReplaceKeeps DEF Writes
  <2>2. CASE UNCHANGED companyVars
    BY <2>2 DEF companyVars, CompanyInv, CompanyTypeOK
  <2> QED  BY <2>1, <2>2, UserKeeps DEF CompanyNext
<1> QED  BY <1>1, <1>2, PTL DEF CompanySpec

(* An enrichment keeps every fact above the rule line of the file it        *)
(* replaces that it can write, whatever the other writers do, unless the    *)
(* file was written outside the lock (enrich, apply_candidate).             *)
THEOREM FactsKept == CompanySpec => EnrichmentKeepsFacts
<1>1. CompanyInv /\ [CompanyNext]_companyVars =>
         [\A w \in Writer :
             /\ writer[w].at = "replace" /\ writer'[w].at = "idle" /\ file' # file
             /\ writer[w].enriches /\ writer[w].expected # NoFile /\ ~writer[w].disturbed
             => file.above \cap Rendered \subseteq file'.above]_companyVars
  <2> SUFFICES ASSUME CompanyInv, CompanyNext, NEW CONSTANT w \in Writer,
                      writer[w].at = "replace", writer'[w].at = "idle", file' # file,
                      writer[w].enriches, writer[w].expected # NoFile, ~writer[w].disturbed
               PROVE  file.above \cap Rendered \subseteq file'.above
    OBVIOUS
  <2>1. writer \in [Writer -> WriterState]
    BY DEF CompanyInv, CompanyTypeOK
  <2>2. Replace(w)
    <3>1. ASSUME NEW CONSTANT v \in Writer, Replace(v) PROVE v = w
      BY <2>1, <3>1 DEF Replace, At, WriterState
    <3>2. ASSUME NEW CONSTANT v \in Writer, FixOpen(v) \/ FixWrite(v) PROVE FALSE
      BY <2>1, <3>2 DEF FixOpen, FixWrite, Disturbed, WriterState
    <3>3. ~UserEdits
      BY <2>1 DEF UserEdits, Disturbed, WriterState
    <3> QED  BY <3>1, <3>2, <3>3 DEF CompanyNext, Writes, Enrich, CompanyApply, Lock, Read,
                                     Stage, FixRead, WriterDies
  <2>3. PICK l : l = writer[w]
    OBVIOUS
  <2>4. l \in WriterState /\ Good(w, l, hidden[w], file, lock)
    BY <2>1, <2>3 DEF CompanyInv
  <2>5. /\ file = l.expected /\ file = l.seen /\ file # NoFile
        /\ file.above \cap Rendered \subseteq l.wanted /\ hidden[w] = MergedOf(l)
    BY <2>3, <2>4 DEF Good, Compared
  <2>7. file' = MergedOf(l)
    BY <2>2, <2>5 DEF Replace
  <2>8. ASSUME NEW f \in file.above \cap Rendered PROVE f \in file'.above
    <3>1. f \in l.wanted /\ HasSection(l.seen.above, f)
      BY <2>5, <2>8 DEF HasSection
    <3>2. f \in MergedOf(l).above
      BY <2>5, <3>1 DEF MergedOf
    <3> QED  BY <2>7, <3>2
  <2> QED  BY <2>8
<1> QED  BY <1>1, CompanyInvariant, PTL DEF CompanySpec, EnrichmentKeepsFacts

-----------------------------------------------------------------------------
(* Machine-checked proofs about RequirementManifest and AssessmentGate, for *)
(* job descriptions of any lines and any length, and any answer.  What is   *)
(* said of the extraction needs an invariant: while nothing is ambiguous,   *)
(* the section the extraction is in is the one a reader sees, and the       *)
(* parent that takes indented bullets belongs to it.                        *)

DraftForm == [kind : Kind, decisive : BOOLEAN, parts : 1..2, line : Nat, children : Seq(Nat)]

Scan == [kind : Kind \cup {None}, started : BOOLEAN, grouped : BOOLEAN, ambiguous : BOOLEAN,
         parent : Nat, drafts : Seq(DraftForm)]

GateTypeOK == jd \in Seq(Line) /\ scan \in Scan

ParentIsOpen ==
    scan.parent # 0 => /\ scan.parent \in DOMAIN scan.drafts
                       /\ scan.drafts[scan.parent].kind = scan.kind

SectionIsSeen == IsRequired(Len(jd) + 1) => scan.ambiguous \/ scan.kind = "required"

GateInv == GateTypeOK /\ ParentIsOpen /\ SectionIsSeen /\ RequiredIsExtractedOrFlagged

(* a line that a reader takes for a requirement, and where it is found      *)
Found(s, i) ==
    \/ s.ambiguous
    \/ \E d \in DOMAIN s.drafts :
          /\ s.drafts[d].kind = "required"
          /\ \/ s.drafts[d].line = i
             \/ \E c \in DOMAIN s.drafts[d].children : s.drafts[d].children[c] = i

-----------------------------------------------------------------------------
(* What was read stays read.                                                *)
LEMMA LinesStay ==
    ASSUME jd \in Seq(Line), NEW CONSTANT l \in Line, jd' = Append(jd, l)
    PROVE  /\ jd' \in Seq(Line) /\ Len(jd) \in Nat /\ Len(jd') = Len(jd) + 1
           /\ jd'[Len(jd) + 1] = l
           /\ \A i \in 1..Len(jd) : jd'[i] = jd[i]
OBVIOUS

LEMMA TitlesStay ==
    ASSUME jd \in Seq(Line), NEW CONSTANT l \in Line, jd' = Append(jd, l),
           NEW CONSTANT i \in 1..Len(jd) + 1
    PROVE  IsRequired(i)' <=> IsRequired(i)
<1>1. Titles(i)' = Titles(i) /\ \A j \in Titles(i) : jd'[j] = jd[j]
  BY LinesStay DEF Titles
<1> QED  BY <1>1 DEF IsRequired

(* A reader is in the section of the last title.                            *)
LEMMA TitleCounts ==
    ASSUME jd \in Seq(Line), NEW CONSTANT l \in Line, jd' = Append(jd, l),
           NEW CONSTANT n, n = Len(jd) + 1
    PROVE  IF l.is \in {"heading", "divider"} \/ (l.is = "bracket" /\ l.kind \in Kind)
           THEN IsRequired(n + 1)' => l.kind = "required"
           ELSE IsRequired(n + 1)' => IsRequired(n)
<1> DEFINE title == l.is \in {"heading", "divider"} \/ (l.is = "bracket" /\ l.kind \in Kind)
<1>1. /\ n \in Nat /\ n >= 1 /\ jd'[n] = l
      /\ \A i \in 1..n - 1 : jd'[i] = jd[i]
  BY LinesStay
<1>2. Titles(n + 1)' = IF title THEN Titles(n) \cup {n} ELSE Titles(n)
  BY <1>1 DEF Titles
<1>3. CASE title
  <2> SUFFICES ASSUME IsRequired(n + 1)' PROVE l.kind = "required"
    BY <1>3
  <2>1. PICK j \in Titles(n + 1)' : jd'[j].kind = "required" /\ \A k \in Titles(n + 1)' : k <= j
    BY DEF IsRequired
  <2>2. n <= j /\ j \in 1..n
    BY <1>1, <1>2, <1>3, <2>1 DEF Titles
  <2> QED  BY <1>1, <2>1, <2>2
<1>4. CASE ~title
  <2> SUFFICES ASSUME IsRequired(n + 1)' PROVE IsRequired(n)
    BY <1>4
  <2>1. PICK j \in Titles(n + 1)' : jd'[j].kind = "required" /\ \A k \in Titles(n + 1)' : k <= j
    BY DEF IsRequired
  <2>2. j \in Titles(n) /\ \A k \in Titles(n) : k <= j
    BY <1>2, <1>4, <2>1
  <2>3. jd'[j] = jd[j]
    BY <1>1, <2>2 DEF Titles
  <2> QED  BY <2>1, <2>2, <2>3 DEF IsRequired
<1> QED  BY <1>1, <1>3, <1>4

-----------------------------------------------------------------------------
(* What was drafted stays drafted.                                          *)
Grows(s, t) ==
    /\ s.ambiguous => t.ambiguous
    /\ \A d \in DOMAIN s.drafts :
          /\ d \in DOMAIN t.drafts
          /\ t.drafts[d].kind = s.drafts[d].kind /\ t.drafts[d].line = s.drafts[d].line
          /\ \A c \in DOMAIN s.drafts[d].children :
                /\ c \in DOMAIN t.drafts[d].children
                /\ t.drafts[d].children[c] = s.drafts[d].children[c]

LEMMA FoundStays ==
    ASSUME NEW s, NEW t, Grows(s, t), NEW i, Found(s, i)
    PROVE  Found(t, i)
<1>1. CASE s.ambiguous
  BY <1>1 DEF Grows, Found
<1>2. CASE \E d \in DOMAIN s.drafts : s.drafts[d].kind = "required" /\ s.drafts[d].line = i
  BY <1>2 DEF Grows, Found
<1>3. CASE \E d \in DOMAIN s.drafts : /\ s.drafts[d].kind = "required"
                                      /\ \E c \in DOMAIN s.drafts[d].children :
                                            s.drafts[d].children[c] = i
  BY <1>3 DEF Grows, Found
<1> QED  BY <1>1, <1>2, <1>3 DEF Found

(* The lines before are found as they were; the new one has to be.          *)
LEMMA LineIsFound ==
    ASSUME jd \in Seq(Line), NEW CONSTANT l \in Line, jd' = Append(jd, l),
           NEW CONSTANT n, n = Len(jd) + 1, RequiredIsExtractedOrFlagged,
           Grows(scan, scan'), IsRequired(n) /\ SaysSomething(l) => Found(scan', n)
    PROVE  RequiredIsExtractedOrFlagged'
<1> SUFFICES ASSUME NEW CONSTANT i \in DOMAIN jd', IsRequired(i)', SaysSomething(jd'[i])
             PROVE  Found(scan', i)
  BY DEF RequiredIsExtractedOrFlagged, SaysSomething, Found, Drafts
<1>1. /\ n \in Nat /\ i \in 1..n /\ jd'[n] = l
      /\ i # n => i \in DOMAIN jd /\ jd'[i] = jd[i]
  BY LinesStay
<1>2. IsRequired(i)
  BY <1>1, TitlesStay
<1>3. CASE i = n
  BY <1>1, <1>2, <1>3
<1>4. CASE i # n
  <2>1. Found(scan, i)
    BY <1>1, <1>2, <1>4 DEF RequiredIsExtractedOrFlagged, SaysSomething, Found, Drafts
  <2> QED  BY <2>1, FoundStays
<1> QED  BY <1>3, <1>4

-----------------------------------------------------------------------------
(* A title, a label and a paragraph leave the drafts alone.                 *)
LEMMA NoDraft ==
    ASSUME GateInv, NEW CONSTANT l \in Line, jd' = Append(jd, l), ~(l.is = "bullet"),
           scan' \in Scan, scan'.drafts = scan.drafts, scan.ambiguous => scan'.ambiguous,
           l.is = "prose" /\ l.stated => (scan.kind = "required" => scan'.ambiguous),
           scan'.parent = 0 \/ (scan'.parent = scan.parent /\ scan'.kind = scan.kind),
           IF l.is \in {"heading", "divider"} \/ (l.is = "bracket" /\ l.kind \in Kind)
           THEN scan'.kind = l.kind
           ELSE scan'.kind = scan.kind \/ (scan.kind = "required" => scan'.ambiguous)
    PROVE  GateInv'
<1> PICK n : n = Len(jd) + 1  OBVIOUS
<1> USE DEF GateInv, GateTypeOK
<1>1. Grows(scan, scan')
  BY DEF Grows
<1>2. IsRequired(n) /\ SaysSomething(l) => Found(scan', n)
  BY DEF SectionIsSeen, SaysSomething, Found
<1>3. RequiredIsExtractedOrFlagged'
  BY <1>1, <1>2, LineIsFound
<1>4. jd' \in Seq(Line) /\ Len(jd') + 1 = n + 1
  BY LinesStay
<1>5. IsRequired(n + 1)' => scan'.ambiguous \/ scan'.kind = "required"
  BY TitleCounts DEF SectionIsSeen
<1>6. SectionIsSeen'
  BY <1>4, <1>5 DEF SectionIsSeen
<1>7. ParentIsOpen'
  BY DEF ParentIsOpen
<1> QED  BY <1>3, <1>4, <1>6, <1>7

LEMMA HeadingKeeps ==
    ASSUME GateInv, NEW CONSTANT l \in Line, jd' = Append(jd, l), Heading(l)
    PROVE  GateInv'
<1>1. l.is = "heading" /\ l.kind \in Kind \cup {None}
  BY LineAssumption DEF Heading, LineForm
<1>2. scan \in Scan /\ scan' = Section(l.kind, l.kind # None)
  BY DEF GateInv, GateTypeOK, Heading
<1>3. scan' \in Scan
  BY <1>1, <1>2 DEF Section, Scan
<1>4. /\ scan'.drafts = scan.drafts /\ scan'.ambiguous = scan.ambiguous
      /\ scan'.parent = 0 /\ scan'.kind = l.kind
  BY <1>1, <1>2 DEF Section, Scan
<1> QED  BY <1>1, <1>3, <1>4, NoDraft

LEMMA DividerKeeps ==
    ASSUME GateInv, NEW CONSTANT l \in Line, jd' = Append(jd, l), Divider(l)
    PROVE  GateInv'
<1>1. l.is = "divider" /\ l.kind \in Kind
  BY LineAssumption DEF Divider, LineForm
<1>2. scan \in Scan /\ scan' = Section(l.kind, FALSE)
  BY DEF GateInv, GateTypeOK, Divider
<1>3. scan' \in Scan
  BY <1>1, <1>2 DEF Section, Scan
<1>4. /\ scan'.drafts = scan.drafts /\ scan'.ambiguous = scan.ambiguous
      /\ scan'.parent = 0 /\ scan'.kind = l.kind
  BY <1>1, <1>2 DEF Section, Scan
<1> QED  BY <1>1, <1>3, <1>4, NoDraft

LEMMA ProseKeeps ==
    ASSUME GateInv, NEW CONSTANT l \in Line, jd' = Append(jd, l), Prose(l)
    PROVE  GateInv'
<1>1. l.is = "prose" /\ scan \in Scan
  BY DEF Prose, GateInv, GateTypeOK
<1>2. scan' \in Scan
  BY <1>1 DEF Prose, Scan
<1>3. /\ scan'.drafts = scan.drafts /\ scan'.parent = scan.parent /\ scan'.kind = scan.kind
      /\ scan'.ambiguous = (scan.ambiguous \/ (scan.kind = "required" /\ l.stated))
  BY <1>1 DEF Prose, Scan
<1>4. l.stated \in BOOLEAN
  BY <1>1, LineAssumption DEF LineForm
<1> QED  BY <1>1, <1>2, <1>3, <1>4, NoDraft

LEMMA BracketKeeps ==
    ASSUME GateInv, NEW CONSTANT l \in Line, jd' = Append(jd, l), Bracket(l)
    PROVE  GateInv'
<1>1. l.is = "bracket" /\ scan \in Scan
  BY DEF Bracket, GateInv, GateTypeOK
<1>2. CASE l.kind \in Kind
  <2>1. scan' = Section(l.kind, FALSE)
    BY <1>2 DEF Bracket
  <2>2. scan' \in Scan
    BY <1>1, <1>2, <2>1 DEF Section, Scan
  <2>3. /\ scan'.drafts = scan.drafts /\ scan'.ambiguous = scan.ambiguous
        /\ scan'.parent = 0 /\ scan'.kind = l.kind
    BY <1>1, <2>1 DEF Section, Scan
  <2> QED  BY <1>1, <1>2, <2>2, <2>3, NoDraft
<1>3. CASE l.kind \notin Kind /\ Subgroup(l)
  <2>1. scan' = [scan EXCEPT !.started = FALSE, !.grouped = TRUE, !.parent = 0]
    BY <1>3 DEF Bracket
  <2>2. scan' \in Scan
    BY <1>1, <2>1 DEF Scan
  <2>3. /\ scan'.drafts = scan.drafts /\ scan'.ambiguous = scan.ambiguous
        /\ scan'.parent = 0 /\ scan'.kind = scan.kind
    BY <1>1, <2>1 DEF Scan
  <2> QED  BY <1>1, <1>3, <2>2, <2>3, NoDraft
<1>4. CASE l.kind \notin Kind /\ ~Subgroup(l)
  <2>1. scan' = [scan EXCEPT !.kind = None, !.parent = 0,
                             !.ambiguous = @ \/ scan.kind = "required"]
    BY <1>4 DEF Bracket
  <2>2. scan' \in Scan
    BY <1>1, <2>1 DEF Scan
  <2>3. /\ scan'.drafts = scan.drafts /\ scan'.parent = 0
        /\ scan'.ambiguous = (scan.ambiguous \/ scan.kind = "required")
    BY <1>1, <2>1 DEF Scan
  <2> QED  BY <1>1, <1>4, <2>2, <2>3, NoDraft
<1> QED  BY <1>2, <1>3, <1>4

-----------------------------------------------------------------------------
(* A bullet leaves the section alone.                                       *)
LEMMA InSection ==
    ASSUME GateInv, NEW CONSTANT l \in Line, jd' = Append(jd, l), l.is = "bullet",
           scan' \in Scan, scan'.kind = scan.kind, scan'.ambiguous = scan.ambiguous,
           Grows(scan, scan'), ParentIsOpen', NEW CONSTANT n, n = Len(jd) + 1,
           l.kept /\ scan.kind = "required" => Found(scan', n)
    PROVE  GateInv'
<1> USE DEF GateInv, GateTypeOK
<1>1. IsRequired(n) /\ SaysSomething(l) => Found(scan', n)
  BY DEF SectionIsSeen, SaysSomething, Found
<1>2. RequiredIsExtractedOrFlagged'
  BY <1>1, LineIsFound
<1>3. jd' \in Seq(Line) /\ Len(jd') + 1 = n + 1
  BY LinesStay
<1>4. IsRequired(n + 1)' => IsRequired(n)
  BY TitleCounts
<1>5. SectionIsSeen'
  BY <1>3, <1>4 DEF SectionIsSeen
<1> QED  BY <1>2, <1>3, <1>5

LEMMA SkippedKeeps ==
    ASSUME GateInv, NEW CONSTANT l \in Line, jd' = Append(jd, l), l.is = "bullet",
           scan.kind = None \/ ~l.kept, scan' = [scan EXCEPT !.started = FALSE]
    PROVE  GateInv'
<1>1. scan \in Scan /\ None # "required"
  BY LineAssumption DEF GateInv, GateTypeOK, Kind
<1>2. scan' \in Scan
  BY <1>1 DEF Scan
<1>3. /\ scan'.drafts = scan.drafts /\ scan'.ambiguous = scan.ambiguous
      /\ scan'.parent = scan.parent /\ scan'.kind = scan.kind
  BY <1>1 DEF Scan
<1>4. Grows(scan, scan')
  BY <1>3 DEF Grows
<1>5. ParentIsOpen'
  BY <1>3 DEF GateInv, ParentIsOpen
<1> QED  BY <1>1, <1>2, <1>3, <1>4, <1>5, InSection

LEMMA AppendExtends ==
    ASSUME NEW S, NEW s \in Seq(S), NEW e \in S
    PROVE  /\ Append(s, e) \in Seq(S)
           /\ Len(s) + 1 \in DOMAIN Append(s, e) /\ Append(s, e)[Len(s) + 1] = e
           /\ \A i \in DOMAIN s : i \in DOMAIN Append(s, e) /\ Append(s, e)[i] = s[i]
OBVIOUS

LEMMA OneGrows ==
    ASSUME NEW s, NEW t, NEW p, s.ambiguous => t.ambiguous,
           DOMAIN t.drafts = DOMAIN s.drafts,
           \A d \in DOMAIN s.drafts : d # p => t.drafts[d] = s.drafts[d],
           t.drafts[p].kind = s.drafts[p].kind, t.drafts[p].line = s.drafts[p].line,
           \A c \in DOMAIN s.drafts[p].children :
              /\ c \in DOMAIN t.drafts[p].children
              /\ t.drafts[p].children[c] = s.drafts[p].children[c]
    PROVE  Grows(s, t)
BY DEF Grows

TakesChild ==
    scan' = [scan EXCEPT !.started = FALSE,
                !.drafts[scan.parent].children = Append(@, Len(jd) + 1)]

LEMMA ChildKeeps ==
    ASSUME GateInv, NEW CONSTANT l \in Line, jd' = Append(jd, l), l.is = "bullet",
           scan.parent # 0, TakesChild
    PROVE  GateInv'
<1>1. PICK n, p, old, line :
         n = Len(jd) + 1 /\ p = scan.parent /\ old = scan.drafts /\ line = old[p].children
  OBVIOUS
<1>2. /\ scan \in Scan /\ n \in Nat
      /\ p \in DOMAIN old /\ old[p].kind = scan.kind
  BY <1>1 DEF GateInv, GateTypeOK, ParentIsOpen
<1>3. old \in Seq(DraftForm) /\ old[p] \in DraftForm /\ line \in Seq(Nat)
  <2>1. old \in Seq(DraftForm)
    BY <1>1, <1>2 DEF Scan
  <2>2. old[p] \in DraftForm
    BY <1>2, <2>1
  <2>3. line \in Seq(Nat)
    BY <1>1, <2>2 DEF DraftForm
  <2> QED  BY <2>1, <2>2, <2>3
<1>4. PICK longer : longer = Append(line, n)  OBVIOUS
<1>5. /\ longer \in Seq(Nat)
      /\ Len(line) + 1 \in DOMAIN longer /\ longer[Len(line) + 1] = n
      /\ \A c \in DOMAIN line : c \in DOMAIN longer /\ longer[c] = line[c]
  BY <1>2, <1>3, <1>4, AppendExtends
<1>6. PICK child : child = [old[p] EXCEPT !.children = longer]  OBVIOUS
<1>7. /\ child \in DraftForm
      /\ child.kind = old[p].kind /\ child.line = old[p].line /\ child.children = longer
  BY <1>3, <1>5, <1>6 DEF DraftForm
<1>8. PICK new : new = [old EXCEPT ![p] = child]  OBVIOUS
<1>9. /\ new \in Seq(DraftForm) /\ DOMAIN new = DOMAIN old /\ new[p] = child
      /\ \A d \in DOMAIN old : d # p => new[d] = old[d]
  BY <1>2, <1>3, <1>7, <1>8
<1>10. /\ scan' \in Scan
       /\ scan'.drafts = new /\ scan'.ambiguous = scan.ambiguous
       /\ scan'.parent = p /\ scan'.kind = scan.kind
  <2>1. scan' = [scan EXCEPT !.started = FALSE, !.drafts = new]
    BY <1>1, <1>2, <1>4, <1>6, <1>8 DEF Scan, TakesChild
  <2> QED  BY <1>1, <1>2, <1>9, <2>1 DEF Scan
<1>11. Grows(scan, scan')
  <2>1. /\ DOMAIN scan'.drafts = DOMAIN scan.drafts
        /\ \A d \in DOMAIN scan.drafts : d # p => scan'.drafts[d] = scan.drafts[d]
        /\ scan'.drafts[p].kind = scan.drafts[p].kind
        /\ scan'.drafts[p].line = scan.drafts[p].line
    BY <1>1, <1>7, <1>9, <1>10
  <2>2. \A c \in DOMAIN scan.drafts[p].children :
           /\ c \in DOMAIN scan'.drafts[p].children
           /\ scan'.drafts[p].children[c] = scan.drafts[p].children[c]
    BY <1>1, <1>5, <1>7, <1>9, <1>10
  <2>3. scan.ambiguous => scan'.ambiguous
    BY <1>10
  <2> QED  BY ONLY <2>1, <2>2, <2>3, OneGrows
<1>12. ParentIsOpen'
  BY <1>2, <1>7, <1>9, <1>10 DEF ParentIsOpen
<1>13. scan.kind = "required" => Found(scan', n)
  <2>1. /\ p \in DOMAIN scan'.drafts /\ scan'.drafts[p].kind = scan.kind
        /\ Len(line) + 1 \in DOMAIN scan'.drafts[p].children
        /\ scan'.drafts[p].children[Len(line) + 1] = n
    BY <1>2, <1>5, <1>7, <1>9, <1>10
  <2> QED  BY <2>1 DEF Found
<1> QED  BY <1>1, <1>10, <1>11, <1>12, <1>13, InSection

LEMMA DraftKeeps ==
    ASSUME GateInv, NEW CONSTANT l \in Line, jd' = Append(jd, l), l.is = "bullet",
           scan.kind # None,
           scan' = [scan EXCEPT !.started = FALSE, !.parent = Len(scan.drafts) + 1,
                       !.drafts = Append(@, Draft(l))]
    PROVE  GateInv'
<1> PICK n : n = Len(jd) + 1  OBVIOUS
<1>1. scan \in Scan /\ n \in Nat /\ n # 0 /\ scan.kind \in Kind
  BY DEF GateInv, GateTypeOK, Scan
<1> PICK draft : draft = Draft(l)  OBVIOUS
<1> PICK old : old = scan.drafts  OBVIOUS
<1> PICK new : new = Append(old, draft)  OBVIOUS
<1> PICK k : k = Len(old) + 1  OBVIOUS
<1>2. l.parts \in 1..2 /\ l.decisive \in BOOLEAN
  BY LineAssumption DEF LineForm
<1>3. /\ draft \in DraftForm
      /\ draft.kind = scan.kind /\ draft.line = n
  BY <1>1, <1>2 DEF Draft, DraftForm
<1>4. /\ old \in Seq(DraftForm) /\ new \in Seq(DraftForm)
      /\ k \in Nat /\ k # 0 /\ k \in DOMAIN new /\ new[k] = draft
      /\ \A d \in DOMAIN old : d \in DOMAIN new /\ new[d] = old[d]
  BY <1>1, <1>3 DEF Scan
<1>5. scan' = [scan EXCEPT !.started = FALSE, !.parent = k, !.drafts = new]
  BY <1>1 DEF Scan
<1>6. /\ scan' \in Scan
      /\ scan'.drafts = new /\ scan'.ambiguous = scan.ambiguous
      /\ scan'.parent = k /\ scan'.kind = scan.kind
  BY <1>1, <1>4, <1>5 DEF Scan
<1>7. Grows(scan, scan')
  BY <1>4, <1>6 DEF Grows
<1>8. ParentIsOpen'
  BY <1>3, <1>4, <1>6 DEF ParentIsOpen
<1>9. scan.kind = "required" => Found(scan', n)
  BY <1>3, <1>4, <1>6 DEF Found
<1> QED  BY <1>6, <1>7, <1>8, <1>9, InSection

LEMMA BulletKeeps ==
    ASSUME GateInv, NEW CONSTANT l \in Line, jd' = Append(jd, l), Bullet(l)
    PROVE  GateInv'
<1>1. l.is = "bullet"
  BY DEF Bullet
<1>2. CASE scan.kind = None \/ ~l.kept
  BY <1>1, <1>2, SkippedKeeps DEF Bullet
<1>3. CASE ~(scan.kind = None \/ ~l.kept) /\ l.indented /\ scan.parent # 0
  BY <1>1, <1>3, ChildKeeps DEF Bullet, TakesChild
<1>4. CASE ~(scan.kind = None \/ ~l.kept) /\ ~(l.indented /\ scan.parent # 0)
  BY <1>1, <1>4, DraftKeeps DEF Bullet
<1> QED  BY <1>2, <1>3, <1>4

(* GateInv is an invariant of the extraction of any job description        *)
(* (extract_requirement_manifest).                                          *)
THEOREM GateInvariant == GateSpec => []GateInv
<1>1. GateInit => GateInv
  <2> SUFFICES ASSUME GateInit PROVE GateInv
    OBVIOUS
  <2>1. jd = <<>> /\ scan.parent = 0 /\ Titles(Len(jd) + 1) = {}
    BY DEF GateInit, ManifestInit, Titles
  <2>2. GateTypeOK
    BY DEF GateInit, ManifestInit, GateTypeOK, Scan
  <2> QED  BY <2>1, <2>2 DEF GateInv, ParentIsOpen, SectionIsSeen, IsRequired,
                             RequiredIsExtractedOrFlagged
<1>2. GateInv /\ [GateNext]_gateVars => GateInv'
  <2> SUFFICES ASSUME GateInv, [GateNext]_gateVars PROVE GateInv'
    OBVIOUS
  <2>1. CASE ReadLine
    <3>1. PICK l \in Line : /\ jd' = Append(jd, l)
                            /\ Heading(l) \/ Bracket(l) \/ Divider(l) \/ Bullet(l) \/ Prose(l)
      BY <2>1 DEF ReadLine
    <3> QED  BY <3>1, HeadingKeeps, BracketKeeps, DividerKeeps, BulletKeeps, ProseKeeps
  <2>2. CASE jd' = jd /\ scan' = scan
    BY <2>2 DEF GateInv, GateTypeOK, ParentIsOpen, SectionIsSeen, RequiredIsExtractedOrFlagged,
                IsRequired, Titles, Drafts
  <2> QED  BY <2>1, <2>2 DEF GateNext, Screen, gateVars, manifestVars
<1> QED  BY <1>1, <1>2, PTL DEF GateSpec

(* No required qualification of any job description is lost without a word  *)
(* (extract_requirement_manifest).                                          *)
THEOREM RequirementsKept == GateSpec => []RequiredIsExtractedOrFlagged
<1>1. GateInv => RequiredIsExtractedOrFlagged
  BY DEF GateInv
<1> QED  BY <1>1, GateInvariant, PTL

-----------------------------------------------------------------------------
(* The guard.  What it makes of a verdict is the verdict or "hold", and a   *)
(* rejection the gate let pass is supported, so the guard leaves it alone.  *)
LEMMA RejectionStands ==
    ASSUME NEW a, BasisHolds(a)
    PROVE  Supported(a) <=> a.verdict = "not recommended"
BY DEF BasisHolds, Supported

LEMMA GuardKeepsCap ==
    ASSUME NEW a, NEW facts, QualityHolds(a, facts), NEW rows
    PROVE  /\ facts.cap = "reject" => Guarded(a, rows) = "not recommended"
           /\ facts.cap = "hold" => Guarded(a, rows) # "recommended"
<1>1. BasisHolds(a) /\ CapHolds(a, facts.cap)
  BY DEF QualityHolds
<1> QED  BY <1>1, RejectionStands DEF CapHolds, Guarded, Held

(* A step that publishes finds a provider's answer that passes the gate.    *)
LEMMA OnePublishes ==
    ASSUME GateNext, IsPublished'
    PROVE  \E facts \in Facts, verdict \in Verdict : \E a \in AnswersWith(verdict) :
              /\ Passes(a, facts) /\ published' = Document(a, facts)
              /\ scan' = scan
BY DEF GateNext, Screen, IsPublished, manifestVars

(* The cap on experience is enforced whatever the answer and the job        *)
(* description (_experience_cap_issues, _apply_conservative_verdict_guard). *)
THEOREM CapEnforced == GateSpec => []CapIsEnforced
<1>1. GateInit => CapIsEnforced
  BY DEF GateInit, CapIsEnforced, IsPublished
<1>2. CapIsEnforced /\ [GateNext]_gateVars => CapIsEnforced'
  <2> SUFFICES ASSUME CapIsEnforced, [GateNext]_gateVars PROVE CapIsEnforced'
    OBVIOUS
  <2>1. CASE GateNext
    <3> SUFFICES ASSUME IsPublished' PROVE CapIsEnforced'
      BY DEF CapIsEnforced
    <3>1. PICK facts \in Facts, verdict \in Verdict : \E a \in AnswersWith(verdict) :
             Passes(a, facts) /\ published' = Document(a, facts)
      BY <2>1, OnePublishes
    <3>2. PICK a \in AnswersWith(verdict) :
             Passes(a, facts) /\ published' = Document(a, facts)
      BY <3>1
    <3>3. /\ published'.facts = facts
          /\ published'.verdict = Guarded(a, Rows(a, facts))
      BY <3>2 DEF Document
    <3>4. QualityHolds(a, facts)
      BY <3>2 DEF Passes
    <3> QED  BY <3>3, <3>4, GuardKeepsCap DEF CapIsEnforced
  <2>2. CASE UNCHANGED gateVars
    BY <2>2 DEF gateVars, CapIsEnforced, IsPublished
  <2> QED  BY <2>1, <2>2
<1> QED  BY <1>1, <1>2, PTL DEF GateSpec

-----------------------------------------------------------------------------
(* The table.  What VerdictRestsOnTable says of one document.               *)
RowsHold(doc) == \A d \in Parents : doc.rows[d] = "met" => doc.facts.lacks[d] = "nothing"
RecommendedHolds(doc) ==
    doc.verdict = "recommended" =>
        doc.by = "strong" /\ ~scan.ambiguous /\ MissingRequired(doc.rows) <= 1
RejectedHolds(doc) ==
    doc.verdict = "not recommended" =>
        \/ doc.rules \cap RejectionRules # {}
        \/ \E d \in doc.basis : scan.drafts[d].decisive /\ doc.rows[d] = "none"
Counted(doc) == {l \in RequiredLeaves : doc.leaves[l] = "met" /\ doc.rows[l[1]] # "none"}
CountsHold(doc) == doc.declared \in {None, Cardinality(Counted(doc))}

Rests(doc) == RowsHold(doc) /\ RecommendedHolds(doc) /\ RejectedHolds(doc) /\ CountsHold(doc)

LEMMA RestsOnTable == VerdictRestsOnTable <=> (IsPublished => Rests(published))
BY DEF VerdictRestsOnTable, Rests, RowsHold, RecommendedHolds, RejectedHolds, CountsHold, Counted

LEMMA StillRests ==
    ASSUME scan' = scan, NEW CONSTANT doc, Rests(doc)
    PROVE  Rests(doc)'
<1>1. Drafts' = Drafts
  BY DEF Drafts
<1>2. Parents' = Parents
  BY <1>1 DEF Parents
<1>3. Leaves' = Leaves
  <2>1. \A d : Parts(d)' = Parts(d) /\ Nested(d)' = Nested(d)
    BY DEF Parts, Nested
  <2>2. \A d : LeavesOf(d)' = LeavesOf(d)
    BY <2>1 DEF LeavesOf, Assessable
  <2> QED  BY <1>2, <2>2 DEF Leaves
<1>4. RequiredLeaves' = RequiredLeaves
  BY <1>3 DEF RequiredLeaves
<1>5. MissingRequired(doc.rows)' = MissingRequired(doc.rows)
  BY <1>2 DEF MissingRequired
<1>6. Counted(doc)' = Counted(doc)
  BY <1>4 DEF Counted
<1>7. RowsHold(doc)' /\ RecommendedHolds(doc)'
  BY <1>2, <1>5 DEF Rests, RowsHold, RecommendedHolds
<1>8. RejectedHolds(doc)' /\ CountsHold(doc)'
  BY <1>6 DEF Rests, RejectedHolds, CountsHold
<1> QED  BY <1>7, <1>8 DEF Rests

LEMMA MissingIsNumber ==
    ASSUME GateInv, NEW rows
    PROVE  MissingRequired(rows) \in Nat
<1>1. Drafts = 1..Len(scan.drafts) /\ Len(scan.drafts) \in Nat
  BY DEF GateInv, GateTypeOK, Scan, Drafts
<1>2. IsFiniteSet(Drafts)
  BY <1>1, FS_Interval
<1> DEFINE missing == {d \in Parents : scan.drafts[d].kind = "required" /\ rows[d] = "none"}
<1>3. missing \subseteq Drafts
  BY DEF Parents
<1>4. IsFiniteSet(missing)
  BY <1>2, <1>3, FS_Subset
<1> HIDE DEF missing
<1>5. Cardinality(missing) \in Nat
  BY <1>4, FS_CardinalityType
<1> QED  BY <1>5 DEF missing, MissingRequired

(* A leaf that counts as met is in a row that is not "none".                *)
LEMMA LeafInRow ==
    ASSUME NEW a, NEW facts, NEW l \in Leaves
    PROVE  /\ l[1] \in Parents
           /\ a.match[l] = "met" => ParentMatch(a.match, l[1]) # "none"
<1>1. PICK d \in Parents : l \in LeavesOf(d)
  BY DEF Leaves
<1>2. l[1] = d
  BY <1>1 DEF LeavesOf
<1>3. ASSUME a.match[l] = "met" PROVE ParentMatch(a.match, d) # "none"
  <2>1. ~(\A k \in LeavesOf(d) : a.match[k] = "none")
    BY <1>1, <1>3
  <2> QED  BY <2>1 DEF ParentMatch
<1> QED  BY <1>1, <1>2, <1>3

LEMMA DocumentCounts ==
    ASSUME NEW a, NEW facts, Passes(a, facts)
    PROVE  CountsHold(Document(a, facts))
<1> DEFINE doc == Document(a, facts)
           left == Effective(a, facts)
           rows == Rows(a, facts)
<1>1. doc.leaves = left /\ doc.rows = rows /\ doc.declared = a.declared
  BY DEF Document
<1>2. ASSUME NEW l \in RequiredLeaves, left[l] = "met"
      PROVE  rows[l[1]] # "none"
  <2>1. l \in Leaves /\ l[1] \in Parents
    BY LeafInRow DEF RequiredLeaves
  <2>2. l[1] \notin Demoted(a, facts) /\ a.match[l] = "met"
    BY <1>2, <2>1 DEF Effective
  <2> QED  BY <2>1, <2>2, LeafInRow DEF Rows
<1>3. Counted(doc) = {l \in RequiredLeaves : left[l] = "met"}
  BY <1>1, <1>2 DEF Counted
<1>4. CASE Demoted(a, facts) # {}
  BY <1>1, <1>3, <1>4 DEF Passes, Recounts, CountHolds, CountsHold
<1>5. CASE Demoted(a, facts) = {}
  <2>1. \A l \in RequiredLeaves : left[l] = a.match[l]
    BY <1>5 DEF RequiredLeaves, Effective
  <2>2. Counted(doc) = {l \in RequiredLeaves : a.match[l] = "met"}
    BY <1>3, <2>1
  <2> QED  BY <1>1, <2>2 DEF Passes, QualityHolds, CountHolds, CountsHold
<1> QED  BY <1>4, <1>5

LEMMA DocumentRests ==
    ASSUME GateInv, NEW facts \in Facts, NEW verdict \in Verdict,
           NEW a \in AnswersWith(verdict), Passes(a, facts)
    PROVE  /\ RowsHold(Document(a, facts)) /\ RecommendedHolds(Document(a, facts))
           /\ RejectedHolds(Document(a, facts)) /\ CountsHold(Document(a, facts))
<1> DEFINE doc == Document(a, facts)
           rows == Rows(a, facts)
<1>1. /\ doc.rows = rows /\ doc.facts = facts /\ doc.by = a.by
      /\ doc.rules = a.rules /\ doc.basis = a.basis
      /\ doc.verdict = Guarded(a, rows)
  BY DEF Document
<1>2. BasisHolds(a)
  BY DEF Passes, QualityHolds
<1>3. a.by \in {"strong", "local"} /\ a.basis \subseteq Parents
  BY DEF AnswersWith
<1>4. RowsHold(doc)
  <2> SUFFICES ASSUME NEW d \in Parents, rows[d] = "met"
               PROVE  facts.lacks[d] = "nothing"
    BY <1>1 DEF RowsHold
  <2>1. facts.lacks[d] \in {"nothing", "words", "source"}
    BY DEF Facts
  <2>2. d \notin Demoted(a, facts) /\ ParentMatch(a.match, d) = "met"
    BY DEF Rows
  <2> QED  BY <2>1, <2>2 DEF Demoted
<1>5. RecommendedHolds(doc)
  <2> SUFFICES ASSUME doc.verdict = "recommended"
               PROVE  a.by = "strong" /\ ~scan.ambiguous /\ MissingRequired(rows) <= 1
    BY <1>1 DEF RecommendedHolds
  <2>1. a.verdict = "recommended" /\ ~Held(a, rows)
    BY <1>1 DEF Guarded
  <2>2. ~Supported(a)
    BY <1>2, <2>1, RejectionStands
  <2>3. a.by # "local" /\ ~scan.ambiguous /\ ~(MissingRequired(rows) >= 2)
    BY <2>1, <2>2 DEF Held
  <2>4. MissingRequired(rows) \in Nat
    BY MissingIsNumber
  <2> QED  BY <1>3, <2>3, <2>4
<1>6. RejectedHolds(doc)
  <2> SUFFICES ASSUME doc.verdict = "not recommended"
               PROVE  \/ a.rules \cap RejectionRules # {}
                      \/ \E d \in a.basis : scan.drafts[d].decisive /\ rows[d] = "none"
    BY <1>1 DEF RejectedHolds
  <2>1. Supported(a)
    BY <1>1, <1>2, RejectionStands DEF Guarded
  <2>2. ASSUME NEW d \in a.basis, RowSupports(a.match, d)
        PROVE  scan.drafts[d].decisive /\ rows[d] = "none"
    BY <1>3, <2>2 DEF RowSupports, Rows
  <2> QED  BY <2>1, <2>2 DEF Supported
<1> QED  BY <1>4, <1>5, <1>6, DocumentCounts

(* A published document rests on its table, for every job description and   *)
(* every answer (check_rows, apply_demotions, the guard).                   *)
THEOREM VerdictRests == GateSpec => []VerdictRestsOnTable
<1>1. GateInit => VerdictRestsOnTable
  BY DEF GateInit, VerdictRestsOnTable, IsPublished
<1>2. GateInv /\ VerdictRestsOnTable /\ [GateNext]_gateVars => VerdictRestsOnTable'
  <2> SUFFICES ASSUME GateInv, VerdictRestsOnTable, [GateNext]_gateVars, IsPublished'
               PROVE  Rests(published)'
    BY RestsOnTable, PTL
  <2>1. CASE GateNext
    <3>1. PICK facts \in Facts, verdict \in Verdict : \E a \in AnswersWith(verdict) :
             Passes(a, facts) /\ published' = Document(a, facts) /\ scan' = scan
      BY <2>1, OnePublishes
    <3>2. PICK a \in AnswersWith(verdict) :
             Passes(a, facts) /\ published' = Document(a, facts) /\ scan' = scan
      BY <3>1
    <3>3. PICK doc : doc = Document(a, facts)
      OBVIOUS
    <3>4. Rests(doc)
      BY <3>2, <3>3, DocumentRests DEF Rests
    <3>5. published' = doc /\ Rests(doc)'
      BY <3>2, <3>3, <3>4, StillRests
    <3> QED  BY <3>5
  <2>2. CASE UNCHANGED gateVars
    <3>1. PICK doc : doc = published
      OBVIOUS
    <3>2. Rests(doc) /\ scan' = scan /\ published' = doc
      BY <2>2, <3>1, RestsOnTable DEF gateVars, IsPublished
    <3>3. Rests(doc)'
      BY <3>2, StillRests
    <3> QED  BY <3>2, <3>3
  <2> QED  BY <2>1, <2>2
<1> QED  BY <1>1, <1>2, GateInvariant, PTL DEF GateSpec

-----------------------------------------------------------------------------
(* Storage migration: what a run has hashed, read and staged so far          *)

Hashes(t) == {Nil} \cup [LegacyFiles(t) -> Nat \cup {Nil}]
Readings(t) == {Nil} \cup [Jds(t) -> Nat \cup {Nil}]
RunState(t) ==
    [at : {"idle", "hash", "parse", "create", "validate", "report", "stage report",
           "activate", "seal", "rename", "done"},
     hash : Hashes(t), read : Readings(t), dry : BOOLEAN, ready : BOOLEAN,
     todo : SUBSET (LegacyFiles(t) \cup Pairs(t))]
StagedRecord(t) ==
    [jd : Jds(t) \cup {Nil}, screening : Screenings(t) \cup {Nil},
     jdText : Nat \cup {Nil}, screeningText : Nat \cup {Nil}]
MigrationReport(t) == [ready : BOOLEAN, activated : BOOLEAN, hash : Hashes(t)]
Store(t) ==
    [records : SUBSET StagedRecord(t),
     manifest : {Nil} \cup {Cardinality(S) : S \in SUBSET StagedRecord(t)},
     report : {Nil} \cup MigrationReport(t)]

MigrationTypeOK ==
    /\ tree \in Trees
    /\ edition \in [LegacyFiles(tree) -> Nat]
    /\ staged \in {Nil} \cup Store(tree)
    /\ active \in {Nil} \cup Store(tree)
    /\ report \in {Nil} \cup MigrationReport(tree)
    /\ run \in RunState(tree)
    /\ accidents \in [edits : Nat, faults : Nat]

(* The stage holds one record for each of these pairs, and no other.        *)
StagedFor(pairs) ==
    /\ staged \in Store(tree)
    /\ \A p \in pairs : \E r \in staged.records : r.jd = p.jd /\ r.screening = p.screening
    /\ \A r \in staged.records : [jd |-> r.jd, screening |-> r.screening] \in pairs
    /\ \A q, r \in staged.records : q.jd = r.jd /\ q.screening = r.screening => q = r

(* A stage that may be activated: it has every pair, with the hashed text.  *)
HashesRead == \A f \in LegacyFiles(tree) : run.hash[f] # Nil
ReadyStage ==
    /\ ~Blocked(tree) /\ HashesRead
    /\ StagedFor(Pairs(tree))
    /\ \A r \in staged.records :
          /\ r.jd # Nil => r.jdText = run.hash[r.jd]
          /\ r.screening # Nil => r.screeningText = run.hash[r.screening]

StageOK ==
    /\ run.at \in {"hash", "parse"} => staged = EmptyStage /\ ~run.ready
    /\ run.at = "hash" => /\ run.todo \subseteq LegacyFiles(tree)
                          /\ run.hash \in [LegacyFiles(tree) -> Nat \cup {Nil}]
    /\ run.at = "parse" => run.todo \subseteq Jds(tree)
    /\ run.at \in {"hash", "parse", "create"} =>
           run.read \in [Jds(tree) -> Nat \cup {Nil}]
    /\ run.at = "create" => /\ ~Blocked(tree) /\ HashesRead
                            /\ run.todo \subseteq Pairs(tree)
                            /\ StagedFor(Pairs(tree) \ run.todo)
    /\ run.at = "validate" => ~Blocked(tree) /\ HashesRead /\ StagedFor(Pairs(tree))
    /\ run.at \in {"report", "stage report"} => staged \in Store(tree) /\ (run.ready => ReadyStage)
    /\ run.at \in {"activate", "seal", "rename"} => run.ready /\ ReadyStage
    /\ run.at \in {"seal", "rename"} => staged.manifest = Cardinality(staged.records)
    /\ run.at = "rename" => staged.report = Reported(TRUE)

MigrationInv == MigrationTypeOK /\ StageOK /\ ActivatedIsComplete

-----------------------------------------------------------------------------
(* What the rules of the legacy tree give, when they block nothing.         *)

LEMMA TreeIsFinite ==
    ASSUME NEW t \in Trees
    PROVE  /\ IsFiniteSet(Jds(t)) /\ IsFiniteSet(Screenings(t))
           /\ Nil \notin Jds(t) /\ Nil \notin Screenings(t)
<1>1. IsFiniteSet(LegacyFiles(t)) /\ Nil \notin LegacyFiles(t)
  BY TreesAssumption
<1>2. Jds(t) \in SUBSET LegacyFiles(t) /\ Screenings(t) \in SUBSET LegacyFiles(t)
  BY DEF LegacyFiles
<1> QED  BY <1>1, <1>2, FS_Subset

PairOf(t, f) ==
    [jd |-> f, screening |-> IF Paired(t, f) = {} THEN Nil
                             ELSE CHOOSE s \in Paired(t, f) : TRUE]

LEMMA PairsOf ==
    ASSUME NEW t \in Trees
    PROVE  Pairs(t) = {PairOf(t, f) : f \in Resolved(t)}
                        \cup {[jd |-> Nil, screening |-> s] : s \in Alone(t)}
BY DEF Pairs, PairOf

LEMMA PairForm ==
    ASSUME NEW t \in Trees, NEW p \in Pairs(t)
    PROVE  /\ p = [jd |-> p.jd, screening |-> p.screening]
           /\ p.jd \in Jds(t) \cup {Nil}
           /\ p.screening \in Screenings(t) \cup {Nil}
<1>1. CASE p \in {[jd |-> Nil, screening |-> s] : s \in Alone(t)}
  BY <1>1 DEF Alone
<1>2. CASE p \in {PairOf(t, f) : f \in Resolved(t)}
  <2>1. PICK f \in Resolved(t) : p = PairOf(t, f)
    BY <1>2
  <2>2. f \in Jds(t) /\ p.jd = f
    BY <2>1 DEF Resolved, PairOf
  <2>3. Paired(t, f) # {} => (CHOOSE s \in Paired(t, f) : TRUE) \in Paired(t, f)
    OBVIOUS
  <2>4. Paired(t, f) \subseteq Screenings(t)
    BY DEF Paired
  <2> QED  BY <2>1, <2>2, <2>3, <2>4 DEF PairOf
<1> QED  BY <1>1, <1>2, PairsOf

LEMMA OneElement ==
    ASSUME NEW S, IsFiniteSet(S), NEW x \in S, Cardinality(S) <= 1
    PROVE  S = {x}
<1>1. Cardinality(S) \in Nat /\ Cardinality(S) # 0
  BY FS_CardinalityType, FS_EmptySet
<1>2. Cardinality(S) = 1
  BY <1>1
<1>3. \E y : S = {y}
  BY <1>2, FS_Singleton
<1> QED  BY <1>3

(* A JD without a record of its own gave way to one structured snapshot.    *)
LEMMA EveryJdIsPaired ==
    ASSUME NEW t \in Trees, ~Blocked(t), NEW f \in Jds(t)
    PROVE  \/ \E p \in Pairs(t) : p.jd = f
           \/ \E p \in Pairs(t) : /\ p.jd \in Rivals(t, f)
                                  /\ t.jd[p.jd].structured /\ ~t.jd[f].structured
<1>1. \A g \in Resolved(t) : \E p \in Pairs(t) : p.jd = g
  <2>1. \A g \in Resolved(t) : PairOf(t, g) \in Pairs(t) /\ PairOf(t, g).jd = g
    BY PairsOf DEF PairOf
  <2> QED  BY <2>1
<1>2. CASE f \in Resolved(t)
  BY <1>1, <1>2
<1>3. CASE f \notin Resolved(t)
  <2>1. f \in Jds(t) \ Unparsed(t)
    BY DEF Blocked
  <2>2. PICK g \in Resolved(t) : g \in Rivals(t, f)
    BY <1>3, <2>1 DEF Blocked, Ambiguous
  <2>3. g # f /\ f \in Rivals(t, g) /\ g \in Rivals(t, g) /\ Rivals(t, g) \subseteq Jds(t)
    BY <1>3, <2>1, <2>2 DEF Rivals
  <2>4. Cardinality(Rivals(t, g)) # 1
    <3>1. IsFiniteSet(Rivals(t, g))
      BY <2>3, TreeIsFinite, FS_Subset
    <3> QED  BY <2>3, <3>1, OneElement
  <2>5. {h \in Rivals(t, g) : t.jd[h].structured} = {g}
    BY <2>4 DEF Resolved, Chosen
  <2>6. t.jd[g].structured /\ ~t.jd[f].structured
    BY <2>3, <2>5
  <2> QED  BY <1>1, <2>2, <2>6
<1> QED  BY <1>2, <1>3

LEMMA EveryScreeningIsPaired ==
    ASSUME NEW t \in Trees, ~Blocked(t), NEW s \in Screenings(t)
    PROVE  \E p \in Pairs(t) : p.screening = s
<1>1. CASE s \in Alone(t)
  <2>1. [jd |-> Nil, screening |-> s] \in Pairs(t)
    BY <1>1, PairsOf
  <2> QED  BY <2>1
<1>2. CASE s \notin Alone(t)
  <2>1. Cardinality(Matching(t, s)) = 1 /\ Matching(t, s) \subseteq Resolved(t)
    BY <1>2 DEF Blocked, Orphans, Matching
  <2>2. IsFiniteSet(Matching(t, s)) /\ IsFiniteSet(Screenings(t))
    <3>1. Matching(t, s) \in SUBSET Jds(t)
      BY <2>1 DEF Resolved
    <3> QED  BY <3>1, TreeIsFinite, FS_Subset
  <2>3. PICK f : Matching(t, s) = {f}
    BY <2>1, <2>2, FS_Singleton
  <2>4. f \in Resolved(t) /\ s \in Paired(t, f)
    BY <2>1, <2>3 DEF Paired
  <2>5. ~(Cardinality(Paired(t, f)) > 1) /\ IsFiniteSet(Paired(t, f))
    BY <2>2, <2>4, FS_Subset DEF Blocked, Paired
  <2>6. Paired(t, f) = {s}
    BY <2>4, <2>5, OneElement, FS_CardinalityType
  <2>7. (CHOOSE x \in Paired(t, f) : TRUE) = s /\ Paired(t, f) # {}
    BY <2>6
  <2>8. PairOf(t, f) \in Pairs(t) /\ PairOf(t, f).screening = s
    BY <2>4, <2>7, PairsOf DEF PairOf
  <2> QED  BY <2>8
<1> QED  BY <1>1, <1>2

(* So a stage that is ready, sealed and counted is complete.                *)
LEMMA ReadyIsComplete ==
    ASSUME MigrationTypeOK, ReadyStage, run.ready,
           staged.manifest = Cardinality(staged.records), staged.report = Reported(TRUE)
    PROVE  LET hash == staged.report.hash IN
           /\ staged.report.activated /\ staged.report.ready
           /\ staged.manifest = Cardinality(staged.records)
           /\ \A f \in LegacyFiles(tree) : hash[f] # Nil
           /\ \A f \in Jds(tree) :
                 \/ \E r \in staged.records : r.jd = f /\ r.jdText = hash[f]
                 \/ \E r \in staged.records : /\ r.jd \in Rivals(tree, f)
                                              /\ tree.jd[r.jd].structured
                                              /\ ~tree.jd[f].structured
           /\ \A s \in Screenings(tree) :
                 \E r \in staged.records : r.screening = s /\ r.screeningText = hash[s]
           /\ \A q, r \in staged.records : q.jd = r.jd /\ q.screening = r.screening => q = r
<1> DEFINE hash == staged.report.hash
<1>1. staged.report.activated /\ staged.report.ready /\ hash = run.hash
  BY DEF Reported
<1> HIDE DEF hash
<1>2. tree \in Trees /\ Nil \notin Jds(tree) /\ Nil \notin Screenings(tree)
  BY TreeIsFinite DEF MigrationTypeOK
<1>3. ASSUME NEW f \in Jds(tree)
      PROVE  \/ \E r \in staged.records : r.jd = f /\ r.jdText = hash[f]
             \/ \E r \in staged.records : /\ r.jd \in Rivals(tree, f)
                                          /\ tree.jd[r.jd].structured
                                          /\ ~tree.jd[f].structured
  <2>1. CASE \E p \in Pairs(tree) : p.jd = f
    <3>1. PICK r \in staged.records : r.jd = f
      BY <2>1 DEF ReadyStage, StagedFor
    <3> QED  BY <1>1, <1>2, <3>1 DEF ReadyStage
  <2>2. CASE \E p \in Pairs(tree) : /\ p.jd \in Rivals(tree, f)
                                    /\ tree.jd[p.jd].structured /\ ~tree.jd[f].structured
    BY <2>2 DEF ReadyStage, StagedFor
  <2> QED  BY <1>2, <2>1, <2>2, EveryJdIsPaired DEF ReadyStage
<1>4. ASSUME NEW s \in Screenings(tree)
      PROVE  \E r \in staged.records : r.screening = s /\ r.screeningText = hash[s]
  <2>1. PICK p \in Pairs(tree) : p.screening = s
    BY <1>2, EveryScreeningIsPaired DEF ReadyStage
  <2>2. PICK r \in staged.records : r.screening = s
    BY <2>1 DEF ReadyStage, StagedFor
  <2> QED  BY <1>1, <1>2, <2>2 DEF ReadyStage
<1>5. \A q, r \in staged.records : q.jd = r.jd /\ q.screening = r.screening => q = r
  BY DEF ReadyStage, StagedFor
<1>6. \A f \in LegacyFiles(tree) : hash[f] # Nil
  BY <1>1 DEF ReadyStage, HashesRead
<1> QED  BY <1>1, <1>3, <1>4, <1>5, <1>6 DEF hash

-----------------------------------------------------------------------------
(* A step of the run leaves the legacy and the active root alone, but for   *)
(* the rename.                                                              *)
LEMMA StageMoves ==
    ASSUME MigrationInv, UNCHANGED <<tree, edition, active>>,
           accidents' \in [edits : Nat, faults : Nat],
           staged' \in {Nil} \cup Store(tree), report' \in {Nil} \cup MigrationReport(tree),
           run' \in RunState(tree), StageOK'
    PROVE  MigrationInv'
BY DEF MigrationInv, MigrationTypeOK, ActivatedIsComplete

LEMMA QuietMoves ==
    ASSUME MigrationInv, UNCHANGED <<tree, edition, active, accidents>>,
           staged' \in {Nil} \cup Store(tree), report' \in {Nil} \cup MigrationReport(tree),
           run' \in RunState(tree), StageOK'
    PROVE  MigrationInv'
BY StageMoves DEF MigrationInv, MigrationTypeOK

LEMMA GetsForm ==
    ASSUME MigrationTypeOK, NEW text, NEW found, Gets(text, found) \/ CannotRead
    PROVE  accidents' \in [edits : Nat, faults : Nat]
<1>1. accidents \in [edits : Nat, faults : Nat]
  BY DEF MigrationTypeOK
<1>2. UNCHANGED accidents \/ accidents' = [accidents EXCEPT !.faults = @ + 1]
  BY DEF Gets, CannotRead
<1> QED  BY <1>1, <1>2

LEMMA ReportedForm ==
    ASSUME MigrationTypeOK, NEW activated \in BOOLEAN
    PROVE  Reported(activated) \in MigrationReport(tree)
BY DEF MigrationTypeOK, RunState, Reported, MigrationReport

LEMMA MigrationInitHolds == MigrationInit => MigrationInv
<1> SUFFICES ASSUME MigrationInit PROVE MigrationInv
  OBVIOUS
<1>1. run \in RunState(tree) /\ run.at = "idle"
  BY DEF MigrationInit, Stopped, RunState, Hashes, Readings
<1> QED  BY <1>1 DEF MigrationInit, MigrationInv, MigrationTypeOK, StageOK, ActivatedIsComplete

LEMMA EmptyIsStore == EmptyStage \in Store(tree) /\ EmptyStage.records = {}
<1>1. Nil \in {Nil} \cup {Cardinality(S) : S \in SUBSET StagedRecord(tree)}
      /\ Nil \in {Nil} \cup MigrationReport(tree)
  OBVIOUS
<1> QED  BY <1>1 DEF EmptyStage, Store

LEMMA StoppedKeeps ==
    ASSUME MigrationInv, UNCHANGED <<tree, edition, active, accidents>>,
           staged' \in {Nil} \cup Store(tree), report' \in {Nil} \cup MigrationReport(tree),
           run' = Stopped
    PROVE  MigrationInv'
<1>1. run' \in RunState(tree) /\ run'.at = "idle"
  BY DEF Stopped, RunState, Hashes, Readings
<1> QED  BY <1>1, QuietMoves DEF StageOK

LEMMA ResetKeeps == MigrationInv /\ Reset => MigrationInv'
<1> SUFFICES ASSUME MigrationInv, Reset PROVE MigrationInv'
  OBVIOUS
<1>1. PICK dry \in BOOLEAN :
        run' = [Stopped EXCEPT !.at = "hash", !.dry = dry, !.todo = LegacyFiles(tree),
                   !.hash = [f \in LegacyFiles(tree) |-> Nil],
                   !.read = [f \in Jds(tree) |-> Nil]]
  BY DEF Reset
<1>2. /\ run'.at = "hash" /\ run'.todo = LegacyFiles(tree) /\ ~run'.ready
      /\ run'.hash \in [LegacyFiles(tree) -> Nat \cup {Nil}]
      /\ run'.read \in [Jds(tree) -> Nat \cup {Nil}]
      /\ run' \in RunState(tree)
  BY <1>1 DEF Stopped, RunState, Hashes, Readings
<1>3. StageOK'
  BY <1>2 DEF StageOK, Reset
<1> QED  BY <1>2, <1>3, EmptyIsStore, QuietMoves DEF Reset, MigrationInv, MigrationTypeOK

LEMMA HashKeeps == MigrationInv /\ Hash => MigrationInv'
<1> SUFFICES ASSUME MigrationInv, Hash PROVE MigrationInv'
  OBVIOUS
<1>1. /\ run \in RunState(tree) /\ run.at = "hash" /\ staged = EmptyStage /\ ~run.ready
      /\ run.todo \subseteq LegacyFiles(tree)
      /\ run.hash \in [LegacyFiles(tree) -> Nat \cup {Nil}]
      /\ run.read \in [Jds(tree) -> Nat \cup {Nil}]
      /\ edition \in [LegacyFiles(tree) -> Nat]
      /\ UNCHANGED <<tree, edition, staged, active, report>>
  BY DEF MigrationInv, MigrationTypeOK, StageOK, Hash
<1>2. CASE run.todo = {}
  <2>1. run' = [run EXCEPT !.at = "parse", !.todo = Jds(tree)] /\ UNCHANGED accidents
    BY <1>2 DEF Hash
  <2>2. /\ run' \in RunState(tree) /\ run'.at = "parse" /\ run'.todo = Jds(tree)
        /\ run'.read = run.read /\ run'.ready = run.ready
    BY <1>1, <2>1 DEF RunState, LegacyFiles
  <2>3. StageOK'
    BY <1>1, <2>2 DEF StageOK
  <2> QED  BY <1>1, <2>1, <2>2, <2>3, QuietMoves DEF MigrationInv, MigrationTypeOK
<1>3. CASE run.todo # {}
  <2>1. PICK f \in run.todo, text \in Nat \cup {Nil} :
           /\ Gets(text, edition[f])
           /\ run' = [run EXCEPT !.hash[f] = text, !.todo = @ \ {f}]
    <3>1. PICK f \in run.todo : f = CHOOSE g \in run.todo : TRUE
      BY <1>3
    <3>2. PICK text \in {Nil, edition[f]} :
             /\ Gets(text, edition[f])
             /\ run' = [run EXCEPT !.hash[f] = text, !.todo = @ \ {f}]
      BY <1>3, <3>1 DEF Hash
    <3>3. edition[f] \in Nat
      BY <1>1 DEF LegacyFiles
    <3> QED  BY <3>2, <3>3
  <2>2. text \in Nat \cup {Nil} /\ accidents' \in [edits : Nat, faults : Nat]
    BY <1>1, <2>1, GetsForm DEF MigrationInv
  <2>3. /\ run'.at = "hash" /\ run'.todo = run.todo \ {f}
        /\ run'.hash \in [LegacyFiles(tree) -> Nat \cup {Nil}]
        /\ run'.read = run.read /\ run'.ready = run.ready
        /\ run' \in RunState(tree)
    BY <1>1, <2>1, <2>2 DEF RunState, Hashes
  <2>4. StageOK'
    BY <1>1, <2>3 DEF StageOK
  <2> QED  BY <1>1, <2>2, <2>3, <2>4, StageMoves DEF MigrationInv, MigrationTypeOK
<1> QED  BY <1>2, <1>3

LEMMA ParseKeeps == MigrationInv /\ Parse => MigrationInv'
<1> SUFFICES ASSUME MigrationInv, Parse PROVE MigrationInv'
  OBVIOUS
<1>1. /\ run \in RunState(tree) /\ run.at = "parse" /\ staged = EmptyStage /\ ~run.ready
      /\ run.todo \subseteq Jds(tree)
      /\ run.read \in [Jds(tree) -> Nat \cup {Nil}]
      /\ edition \in [LegacyFiles(tree) -> Nat]
      /\ UNCHANGED <<tree, edition, staged, active, report>>
  BY DEF MigrationInv, MigrationTypeOK, StageOK, Parse
<1>2. CASE run.todo # {}
  <2>1. PICK f \in run.todo, text \in Nat \cup {Nil} :
           /\ Gets(text, edition[f])
           /\ run' = [run EXCEPT !.read[f] = text, !.todo = @ \ {f}]
    <3>1. PICK f \in run.todo : f = CHOOSE g \in run.todo : TRUE
      BY <1>2
    <3>2. PICK text \in {Nil, edition[f]} :
             /\ Gets(text, edition[f])
             /\ run' = [run EXCEPT !.read[f] = text, !.todo = @ \ {f}]
      BY <1>2, <3>1 DEF Parse
    <3>3. edition[f] \in Nat
      BY <1>1 DEF LegacyFiles
    <3> QED  BY <3>2, <3>3
  <2>2. text \in Nat \cup {Nil} /\ accidents' \in [edits : Nat, faults : Nat]
    BY <1>1, <2>1, GetsForm DEF LegacyFiles, MigrationInv
  <2>3. /\ run'.at = "parse" /\ run'.todo = run.todo \ {f} /\ run'.ready = run.ready
        /\ run'.read \in [Jds(tree) -> Nat \cup {Nil}]
        /\ run' \in RunState(tree)
    BY <1>1, <2>1, <2>2 DEF RunState, Readings
  <2>4. StageOK'
    BY <1>1, <2>3 DEF StageOK
  <2> QED  BY <1>1, <2>2, <2>3, <2>4, StageMoves DEF MigrationInv, MigrationTypeOK
<1>3. CASE run.todo = {} /\ (Blocked(tree) \/ Unread)
  <2>1. run' = [run EXCEPT !.at = "report"] /\ UNCHANGED accidents
    BY <1>3 DEF Parse
  <2>2. run' \in RunState(tree) /\ run'.at = "report" /\ ~run'.ready
    BY <1>1, <2>1 DEF RunState
  <2>3. StageOK'
    BY <1>1, <2>2, EmptyIsStore DEF StageOK
  <2> QED  BY <1>1, <2>1, <2>2, <2>3, QuietMoves DEF MigrationInv, MigrationTypeOK
<1>4. CASE run.todo = {} /\ ~(Blocked(tree) \/ Unread)
  <2>1. run' = [run EXCEPT !.at = "create", !.todo = Pairs(tree)] /\ UNCHANGED accidents
    BY <1>4 DEF Parse
  <2>2. /\ run' \in RunState(tree) /\ run'.at = "create" /\ run'.todo = Pairs(tree)
        /\ run'.read = run.read /\ run'.hash = run.hash
    BY <1>1, <2>1 DEF RunState
  <2>3. StagedFor(Pairs(tree) \ run'.todo)
    BY <1>1, <2>2, EmptyIsStore DEF StagedFor
  <2>4. StageOK'
    BY <1>1, <1>4, <2>2, <2>3 DEF StageOK, StagedFor, Unread, HashesRead
  <2> QED  BY <1>1, <2>1, <2>2, <2>4, QuietMoves DEF MigrationInv, MigrationTypeOK
<1> QED  BY <1>2, <1>3, <1>4

LEMMA CreateKeeps == MigrationInv /\ Create => MigrationInv'
<1> SUFFICES ASSUME MigrationInv, Create PROVE MigrationInv'
  OBVIOUS
<1>1. /\ run \in RunState(tree) /\ run.at = "create" /\ tree \in Trees
      /\ ~Blocked(tree) /\ HashesRead
      /\ run.todo \subseteq Pairs(tree) /\ staged \in Store(tree)
      /\ StagedFor(Pairs(tree) \ run.todo)
      /\ run.read \in [Jds(tree) -> Nat \cup {Nil}]
      /\ edition \in [LegacyFiles(tree) -> Nat]
      /\ UNCHANGED <<tree, edition, active, report>>
  BY DEF MigrationInv, MigrationTypeOK, StageOK, StagedFor, Create
<1>2. CASE run.todo # {}
  <2> DEFINE jdText(p) == IF p.jd = Nil THEN Nil ELSE run.read[p.jd]
             screeningText(p) == IF p.screening = Nil THEN Nil ELSE edition[p.screening]
  <2>1. PICK p \in run.todo, got \in Nat \cup {Nil}, screening \in Nat \cup {Nil} :
           /\ staged' = [staged EXCEPT !.records = @ \cup
                 {[jd |-> p.jd, screening |-> p.screening,
                   jdText |-> got, screeningText |-> screening]}]
           /\ \/ got = jdText(p) /\ Gets(screening, screeningText(p))
              \/ got = Nil /\ screening = Nil /\ CannotRead
           /\ run' = [run EXCEPT !.todo = @ \ {p}]
    <3> DEFINE p == CHOOSE q \in run.todo : TRUE
    <3>1. p \in run.todo
      BY <1>2
    <3>2. \E got \in {jdText(p), Nil}, screening \in {screeningText(p), Nil} :
             /\ staged' = [staged EXCEPT !.records = @ \cup
                   {[jd |-> p.jd, screening |-> p.screening,
                     jdText |-> got, screeningText |-> screening]}]
             /\ \/ got = jdText(p) /\ Gets(screening, screeningText(p))
                \/ got = Nil /\ screening = Nil /\ CannotRead
             /\ run' = [run EXCEPT !.todo = @ \ {p}]
      BY <1>2, Zenon DEF Create
    <3> HIDE DEF p
    <3>3. jdText(p) \in Nat \cup {Nil} /\ screeningText(p) \in Nat \cup {Nil}
      <4>1. p.jd \in Jds(tree) \cup {Nil} /\ p.screening \in Screenings(tree) \cup {Nil}
        BY <1>1, <3>1, PairForm
      <4> QED  BY <1>1, <4>1 DEF LegacyFiles
    <3> QED  BY <3>1, <3>2, <3>3
  <2>2. p \in run.todo /\ accidents' \in [edits : Nat, faults : Nat]
    BY <2>1, GetsForm DEF MigrationInv
  <2>3. /\ p \in Pairs(tree) /\ p = [jd |-> p.jd, screening |-> p.screening]
        /\ p.jd \in Jds(tree) \cup {Nil} /\ p.screening \in Screenings(tree) \cup {Nil}
    BY <1>1, <2>2, PairForm
  <2> DEFINE new == [jd |-> p.jd, screening |-> p.screening,
                     jdText |-> got, screeningText |-> screening]
  <2>4. /\ new \in StagedRecord(tree) /\ new.jd = p.jd /\ new.screening = p.screening
        /\ staged' = [staged EXCEPT !.records = @ \cup {new}]
    BY <2>1, <2>3 DEF StagedRecord
  <2> HIDE DEF new
  <2>5. /\ run' \in RunState(tree) /\ run'.at = "create" /\ run'.todo = run.todo \ {p}
        /\ run'.read = run.read /\ run'.hash = run.hash
    BY <1>1, <2>1 DEF RunState
  <2>6. staged' \in Store(tree) /\ staged'.records = staged.records \cup {new}
    BY <1>1, <2>1, <2>4 DEF Store
  <2>7. StagedFor(Pairs(tree) \ run.todo)'
    <3>1. (Pairs(tree) \ run.todo)' = (Pairs(tree) \ run.todo) \cup {p}
      BY <1>1, <2>2, <2>3, <2>5
    <3>2. \A q \in Pairs(tree) \ run.todo : \E r \in staged'.records :
              r.jd = q.jd /\ r.screening = q.screening
      BY <1>1, <2>6 DEF StagedFor
    <3>3. \A r \in staged.records :
              /\ [jd |-> r.jd, screening |-> r.screening] \in Pairs(tree) \ run.todo
              /\ [jd |-> r.jd, screening |-> r.screening] # p
      BY <1>1, <2>2 DEF StagedFor
    <3>4. \A r \in staged.records : ~(r.jd = new.jd /\ r.screening = new.screening)
      BY <2>3, <2>4, <3>3
    <3>5. [jd |-> new.jd, screening |-> new.screening] = p
      BY <2>3, <2>4
    <3> QED  BY <1>1, <2>4, <2>6, <3>1, <3>2, <3>3, <3>4, <3>5 DEF StagedFor
  <2>8. StageOK'
    BY <1>1, <2>5, <2>7 DEF StageOK, HashesRead
  <2> QED  BY <1>1, <2>2, <2>5, <2>6, <2>8, StageMoves DEF MigrationInv, MigrationTypeOK
<1>3. CASE run.todo = {}
  <2>1. run' = [run EXCEPT !.at = "validate"] /\ UNCHANGED <<staged, accidents>>
    BY <1>3 DEF Create
  <2>2. run' \in RunState(tree) /\ run'.at = "validate" /\ run'.hash = run.hash
    BY <1>1, <2>1 DEF RunState
  <2>3. StagedFor(Pairs(tree))'
    BY <1>1, <1>3, <2>1 DEF StagedFor
  <2>4. StageOK'
    BY <1>1, <2>2, <2>3 DEF StageOK, HashesRead
  <2> QED  BY <1>1, <2>1, <2>2, <2>4, QuietMoves DEF MigrationInv, MigrationTypeOK
<1> QED  BY <1>2, <1>3

(* From here on, the run moves on with the same hashes and a stage that has *)
(* the same records.                                                        *)
LEMMA StillReady ==
    ASSUME ReadyStage, UNCHANGED tree, staged' \in Store(tree),
           staged'.records = staged.records, run'.hash = run.hash
    PROVE  ReadyStage'
BY DEF ReadyStage, StagedFor, HashesRead

LEMMA ValidateKeeps == MigrationInv /\ Validate => MigrationInv'
<1> SUFFICES ASSUME MigrationInv, Validate PROVE MigrationInv'
  OBVIOUS
<1> DEFINE matched == /\ tree.owned = "known"
                      /\ \A r \in staged.records :
                            /\ r.jd # Nil => r.jdText = run.hash[r.jd]
                            /\ r.screening # Nil => r.screeningText = run.hash[r.screening]
<1>1. /\ run \in RunState(tree) /\ ~Blocked(tree) /\ HashesRead /\ StagedFor(Pairs(tree))
      /\ run' = [run EXCEPT !.at = "report", !.ready = matched]
      /\ UNCHANGED <<tree, edition, staged, active, report, accidents>>
  BY DEF MigrationInv, MigrationTypeOK, StageOK, Validate
<1>2. matched \in BOOLEAN
  OBVIOUS
<1> HIDE DEF matched
<1>3. /\ run' \in RunState(tree) /\ run'.at = "report" /\ run'.ready = matched
      /\ run'.hash = run.hash
  BY <1>1, <1>2 DEF RunState
<1>4. matched => ReadyStage'
  BY <1>1, <1>3 DEF matched, ReadyStage, StagedFor, HashesRead
<1>5. StageOK'
  BY <1>1, <1>3, <1>4 DEF StageOK, StagedFor
<1> QED  BY <1>1, <1>3, <1>5, QuietMoves DEF MigrationInv, MigrationTypeOK

LEMMA ReportKeeps == MigrationInv /\ Report => MigrationInv'
<1> SUFFICES ASSUME MigrationInv, Report PROVE MigrationInv'
  OBVIOUS
<1>1. /\ run \in RunState(tree) /\ staged \in Store(tree) /\ (run.ready => ReadyStage)
      /\ run' = [run EXCEPT !.at = "stage report"]
      /\ report' = Reported(FALSE)
      /\ UNCHANGED <<tree, edition, staged, active, accidents>>
  BY DEF MigrationInv, MigrationTypeOK, StageOK, Report
<1>2. /\ run' \in RunState(tree) /\ run'.at = "stage report" /\ run'.ready = run.ready
      /\ run'.hash = run.hash
  BY <1>1 DEF RunState
<1>3. report' \in MigrationReport(tree)
  BY <1>1, ReportedForm DEF MigrationInv
<1>4. StageOK'
  BY <1>1, <1>2, StillReady DEF StageOK
<1> QED  BY <1>1, <1>2, <1>3, <1>4, QuietMoves

LEMMA StageReportKeeps == MigrationInv /\ StageReport => MigrationInv'
<1> SUFFICES ASSUME MigrationInv, StageReport PROVE MigrationInv'
  OBVIOUS
<1>1. /\ run \in RunState(tree) /\ staged \in Store(tree) /\ (run.ready => ReadyStage)
      /\ staged' = [staged EXCEPT !.report = Reported(FALSE)]
      /\ run' = IF run.dry \/ ~run.ready THEN Stopped ELSE [run EXCEPT !.at = "activate"]
      /\ report \in {Nil} \cup MigrationReport(tree)
      /\ UNCHANGED <<tree, edition, active, report, accidents>>
  BY DEF MigrationInv, MigrationTypeOK, StageOK, StageReport
<1>2. staged' \in Store(tree) /\ staged'.records = staged.records
  BY <1>1, ReportedForm DEF Store, MigrationInv
<1>3. CASE run.dry \/ ~run.ready
  BY <1>1, <1>2, <1>3, StoppedKeeps
<1>4. CASE ~(run.dry \/ ~run.ready)
  <2>1. /\ run' \in RunState(tree) /\ run'.at = "activate" /\ run'.ready
        /\ run'.hash = run.hash
    BY <1>1, <1>4 DEF RunState
  <2>2. StageOK'
    BY <1>1, <1>2, <1>4, <2>1, StillReady DEF StageOK
  <2> QED  BY <1>1, <1>2, <2>1, <2>2, QuietMoves
<1> QED  BY <1>3, <1>4

LEMMA RefuseKeeps == MigrationInv /\ Refuse => MigrationInv'
<1> SUFFICES ASSUME MigrationInv, Refuse PROVE MigrationInv'
  OBVIOUS
<1>1. /\ staged \in Store(tree) /\ run' = Stopped
      /\ report' = [Reported(FALSE) EXCEPT !.ready = FALSE]
      /\ staged' = [staged EXCEPT !.report = report']
      /\ UNCHANGED <<tree, edition, active, accidents>>
  BY DEF MigrationInv, StageOK, ReadyStage, StagedFor, Refuse
<1>2. report' \in MigrationReport(tree)
  BY <1>1, ReportedForm DEF MigrationInv, MigrationReport
<1>3. staged' \in Store(tree)
  BY <1>1, <1>2 DEF Store
<1> QED  BY <1>1, <1>2, <1>3, StoppedKeeps

LEMMA ManifestKeeps == MigrationInv /\ Manifest => MigrationInv'
<1> SUFFICES ASSUME MigrationInv, Manifest PROVE MigrationInv'
  OBVIOUS
<1>1. /\ run \in RunState(tree) /\ staged \in Store(tree) /\ run.ready /\ ReadyStage
      /\ staged' = [staged EXCEPT !.manifest = Cardinality(staged.records)]
      /\ run' = [run EXCEPT !.at = "seal"]
      /\ report \in {Nil} \cup MigrationReport(tree)
      /\ UNCHANGED <<tree, edition, active, report, accidents>>
  BY DEF MigrationInv, MigrationTypeOK, StageOK, ReadyStage, StagedFor, Manifest
<1>2. /\ staged' \in Store(tree) /\ staged'.records = staged.records
      /\ staged'.manifest = Cardinality(staged'.records)
  <2>1. Cardinality(staged.records) \in {Cardinality(S) : S \in SUBSET StagedRecord(tree)}
    BY <1>1 DEF Store
  <2> QED  BY <1>1, <2>1 DEF Store
<1>3. run' \in RunState(tree) /\ run'.at = "seal" /\ run'.ready /\ run'.hash = run.hash
  BY <1>1 DEF RunState
<1>4. StageOK'
  BY <1>1, <1>2, <1>3, StillReady DEF StageOK
<1> QED  BY <1>1, <1>2, <1>3, <1>4, QuietMoves

LEMMA SealKeeps == MigrationInv /\ Seal => MigrationInv'
<1> SUFFICES ASSUME MigrationInv, Seal PROVE MigrationInv'
  OBVIOUS
<1>1. /\ run \in RunState(tree) /\ staged \in Store(tree) /\ run.ready /\ ReadyStage
      /\ staged.manifest = Cardinality(staged.records)
      /\ staged' = [staged EXCEPT !.report = Reported(TRUE)]
      /\ run' = [run EXCEPT !.at = "rename"]
      /\ report \in {Nil} \cup MigrationReport(tree)
      /\ UNCHANGED <<tree, edition, active, report, accidents>>
  BY DEF MigrationInv, MigrationTypeOK, StageOK, ReadyStage, StagedFor, Seal
<1>2. /\ staged' \in Store(tree) /\ staged'.records = staged.records
      /\ staged'.manifest = staged.manifest /\ staged'.report = Reported(TRUE)
  BY <1>1, ReportedForm DEF Store, MigrationInv
<1>3. run' \in RunState(tree) /\ run'.at = "rename" /\ run'.ready = run.ready
      /\ run'.hash = run.hash
  BY <1>1 DEF RunState
<1>4. Reported(TRUE)' = Reported(TRUE)
  BY <1>3 DEF Reported
<1>5. StageOK'
  BY <1>1, <1>2, <1>3, <1>4, StillReady DEF StageOK
<1> QED  BY <1>1, <1>2, <1>3, <1>5, QuietMoves

LEMMA RenameKeeps == MigrationInv /\ Rename => MigrationInv'
<1> SUFFICES ASSUME MigrationInv, Rename PROVE MigrationInv'
  OBVIOUS
<1>1. /\ MigrationTypeOK /\ run.ready /\ ReadyStage /\ run.at = "rename"
      /\ staged \in Store(tree)
      /\ staged.manifest = Cardinality(staged.records) /\ staged.report = Reported(TRUE)
  BY DEF MigrationInv, StageOK, ReadyStage, StagedFor, Rename
<1>2. CASE /\ active' = staged /\ staged' = Nil /\ run' = [run EXCEPT !.at = "done"]
           /\ UNCHANGED <<tree, edition, report, accidents>>
  <2>1. /\ active' = staged /\ staged' = Nil /\ run' = [run EXCEPT !.at = "done"]
        /\ UNCHANGED <<tree, edition, report, accidents>>
    BY <1>2
  <2>2. run' \in RunState(tree) /\ run'.at = "done"
    BY <1>1, <2>1 DEF MigrationTypeOK, RunState
  <2>3. ActivatedIsComplete'
    <3> DEFINE store == staged
               hash == store.report.hash
    <3>1. /\ store.report.activated /\ store.report.ready
          /\ store.manifest = Cardinality(store.records)
          /\ \A f \in LegacyFiles(tree) : hash[f] # Nil
          /\ \A f \in Jds(tree) :
                \/ \E r \in store.records : r.jd = f /\ r.jdText = hash[f]
                \/ \E r \in store.records : /\ r.jd \in Rivals(tree, f)
                                            /\ tree.jd[r.jd].structured
                                            /\ ~tree.jd[f].structured
          /\ \A s \in Screenings(tree) :
                \E r \in store.records : r.screening = s /\ r.screeningText = hash[s]
          /\ \A q, r \in store.records : q.jd = r.jd /\ q.screening = r.screening => q = r
      BY <1>1, ReadyIsComplete
    <3>2. active' = store /\ tree' = tree
      BY <2>1
    <3> HIDE DEF store
    <3> QED  BY <3>1, <3>2 DEF ActivatedIsComplete
  <2>4. StageOK'
    BY <2>2 DEF StageOK
  <2> QED  BY <1>1, <2>1, <2>2, <2>3, <2>4 DEF MigrationInv, MigrationTypeOK
<1>3. CASE run' = Stopped /\ UNCHANGED <<tree, edition, staged, active, report, accidents>>
  BY <1>1, <1>3, StoppedKeeps DEF MigrationTypeOK
<1> QED  BY <1>2, <1>3 DEF Rename

LEMMA DoneKeeps == MigrationInv /\ Done => MigrationInv'
BY ReportedForm, StoppedKeeps DEF Done, MigrationInv, MigrationTypeOK

(* An edit changes no text that was hashed or staged.                       *)
LEMMA LegacyEditKeeps == MigrationInv /\ Edit => MigrationInv'
<1> SUFFICES ASSUME MigrationInv, Edit PROVE MigrationInv'
  OBVIOUS
<1>1. accidents' \in [edits : Nat, faults : Nat] /\ accidents'.edits \in Nat
  BY TreesAssumption DEF MigrationInv, MigrationTypeOK, Edit
<1>2. edition' \in [LegacyFiles(tree) -> Nat] /\ UNCHANGED <<tree, staged, report, run>>
  BY <1>1 DEF MigrationInv, MigrationTypeOK, Edit
<1>3. StageOK'
  BY <1>2 DEF MigrationInv, StageOK, ReadyStage, StagedFor, HashesRead, Reported
<1>4. active' \in {Nil} \cup Store(tree) /\ ActivatedIsComplete'
  <2>1. CASE UNCHANGED active
    BY <1>2, <2>1 DEF MigrationInv, MigrationTypeOK, ActivatedIsComplete
  <2>2. CASE active' = EmptyStage
    BY <2>2, <1>2, EmptyIsStore DEF ActivatedIsComplete
  <2> QED  BY <2>1, <2>2 DEF Edit
<1> QED  BY <1>1, <1>2, <1>3, <1>4 DEF MigrationInv, MigrationTypeOK

LEMMA DeathKeeps == MigrationInv /\ Death => MigrationInv'
<1> SUFFICES ASSUME MigrationInv, Death PROVE MigrationInv'
  OBVIOUS
<1>1. run' \in RunState(tree) /\ run'.at = "idle"
  BY DEF Death, Stopped, RunState, Hashes, Readings
<1>2. accidents' \in [edits : Nat, faults : Nat]
  BY DEF MigrationInv, MigrationTypeOK, Death
<1>3. StageOK'
  BY <1>1 DEF StageOK
<1> QED  BY <1>1, <1>2, <1>3 DEF Death, MigrationInv, MigrationTypeOK, ActivatedIsComplete

(* MigrationInv is an invariant of the migration (StorageMigrator.preflight  *)
(* and activate), whatever is edited or cannot be read, wherever a run dies.*)
THEOREM MigrationInvariant == MigrationSpec => []MigrationInv
<1>1. MigrationInv /\ [MigrationNext]_migrationVars => MigrationInv'
  <2> SUFFICES ASSUME MigrationInv, [MigrationNext]_migrationVars PROVE MigrationInv'
    OBVIOUS
  <2>1. CASE UNCHANGED migrationVars
    <3>1. MigrationTypeOK'
      BY <2>1 DEF migrationVars, MigrationInv, MigrationTypeOK
    <3>2. StageOK'
      BY <2>1 DEF migrationVars, MigrationInv, StageOK, ReadyStage, StagedFor, HashesRead, Reported
    <3>3. ActivatedIsComplete'
      BY <2>1 DEF migrationVars, MigrationInv, ActivatedIsComplete
    <3> QED  BY <3>1, <3>2, <3>3 DEF MigrationInv
  <2>2. CASE Preflight
    BY <2>2, ResetKeeps, HashKeeps, ParseKeeps, CreateKeeps, ValidateKeeps, ReportKeeps,
       StageReportKeeps DEF Preflight
  <2>3. CASE Activate
    BY <2>3, RefuseKeeps, ManifestKeeps, SealKeeps, RenameKeeps, DoneKeeps DEF Activate
  <2> QED  BY <2>1, <2>2, <2>3, LegacyEditKeeps, DeathKeeps DEF MigrationNext
<1> QED  BY <1>1, MigrationInitHolds, PTL DEF MigrationSpec

(* What a migration activates is complete and true of the legacy it hashed, *)
(* for any legacy trees, any number of runs, edits, failed reads and deaths *)
(* (StorageMigrator.preflight and activate).                                *)
THEOREM ActivatedAreComplete == MigrationSpec => []ActivatedIsComplete
<1>1. MigrationInv => ActivatedIsComplete
  BY DEF MigrationInv
<1> QED  BY <1>1, MigrationInvariant, PTL

-----------------------------------------------------------------------------
(* Machine-checked proofs about PostingChecks, for any records on any       *)
(* platforms, any answers of the sites and any changes meanwhile.  What a   *)
(* run judges is what its probe made of an answer: CheckInv relates that    *)
(* outcome to what was true of the posting when the site answered.          *)

(* What an outcome says is true of the posting when its site answered:      *)
(* CLOSED always, ACTIVE where it can be trusted.                           *)
OutcomeIsTrue(platform, outcome, truth) ==
    /\ outcome = "closed" => truth = "closed"
    /\ outcome = "active" /\ platform \in RecheckSafe => truth = "active"

LEMMA AnswersTellTruth ==
    ASSUME NEW platform, NEW truth \in {"active", "closed"}, NEW answer \in Says(platform, truth)
    PROVE  OutcomeIsTrue(platform, Outcome(platform, answer), truth)
<1> DEFINE Extra == CASE platform = "offercent" -> {"other page"}
                      [] platform = "saramin" -> {"undated"}
                      [] platform = "groupby" -> {"placeholder"}
                      [] OTHER -> {}
<1>1. Extra \subseteq {"other page", "undated", "placeholder"}
  OBVIOUS
<1>2. ReadAsClosed(platform) \cap (Fault \cup {"active"} \cup {"other page", "undated", "placeholder"})
        = {}
  BY DEF ReadAsClosed, Fault, Retryable
<1>3. platform \in RecheckSafe =>
        /\ Extra = {}
        /\ ReadAsActive(platform) \cap (Fault \cup ReadAsClosed(platform)) = {}
  <2>1. CASE platform = "wanted"
    BY <2>1 DEF RecheckSafe, ReadAsActive, ReadAsClosed, Fault, Retryable, Probed
  <2>2. CASE platform = "remember"
    BY <2>2 DEF RecheckSafe, ReadAsActive, ReadAsClosed, Fault, Retryable, Probed
  <2>3. CASE platform = "jumpit"
    BY <2>3 DEF RecheckSafe, ReadAsActive, ReadAsClosed, Fault, Retryable, Probed
  <2>4. CASE platform = "greeting"
    BY <2>4 DEF RecheckSafe, ReadAsActive, ReadAsClosed, Fault, Retryable, Probed
  <2> QED  BY <2>1, <2>2, <2>3, <2>4 DEF RecheckSafe
<1>4. answer \in Fault \cup (IF truth = "active" THEN {"active"} ELSE ReadAsClosed(platform))
                       \cup Extra
  BY DEF Says
<1> HIDE DEF Extra
<1>5. Outcome(platform, answer) = "closed" => answer \in ReadAsClosed(platform)
  BY DEF Outcome
<1>6. Outcome(platform, answer) = "active" => answer \in ReadAsActive(platform)
  BY DEF Outcome
<1> QED  BY <1>1, <1>2, <1>3, <1>4, <1>5, <1>6 DEF OutcomeIsTrue

(* a run of checks is a record of these fields                              *)
Fields == {"at", "todo", "recheck", "apply", "tries", "outcome", "truth", "unknowns",
           "tripped", "failing"}
IsRun(c) == c = [f \in Fields |-> c[f]]

CheckInv ==
    /\ posting \in [Records -> {"active", "closed"}]
    /\ site \in [Records -> {"active", "closed"}]
    /\ IsRun(check)
    /\ check.at = "judge" /\ Head(check.todo) \in Records =>
          OutcomeIsTrue(Platform, check.outcome, check.truth)

LEMMA CheckInductive ==
    ASSUME CheckInv, [CheckNext]_checkVars
    PROVE  CheckInv'
<1>0. ASSUME IsRun(check'), check'.at # "judge",
             posting' \in [Records -> {"active", "closed"}], UNCHANGED site
      PROVE  CheckInv'
  BY <1>0 DEF CheckInv
<1>10. ASSUME NEW CONSTANT c, IsRun(c)
      PROVE  IsRun(Dropped(c)) /\ Dropped(c).at = "next"
  BY <1>10 DEF IsRun, Fields, Dropped
<1>1. CASE Begin
  <2>1. PICK recheck, apply, todo :
           check' = [Ready EXCEPT !.at = "next", !.recheck = recheck, !.apply = apply,
                                  !.todo = todo]
    BY <1>1 DEF Begin
  <2>3. IsRun(check') /\ check'.at # "judge"
    BY <2>1 DEF IsRun, Ready, Fields
  <2> QED  BY <1>0, <1>1, <2>3 DEF Begin, CheckInv
<1>2. CASE Ended
  <2>1. IsRun(Ready) /\ Ready.at # "judge"
    BY DEF IsRun, Ready, Fields
  <2> QED  BY <1>0, <1>2, <2>1 DEF Ended, CheckInv
<1>11. CASE Skip
  <2>1. PICK c : c = check
    OBVIOUS
  <2>2. IsRun(Dropped(c)) /\ Dropped(c).at = "next"
    BY <1>10, <2>1 DEF CheckInv
  <2> QED  BY <1>0, <1>11, <2>1, <2>2 DEF Skip, CheckInv
<1>3. CASE Ask
  <2> DEFINE r == Head(check.todo)
  <2>1. PICK answer \in Says(Platform, site[r]) :
          IF answer \in Retryable /\ check.tries = 0
          THEN check' = [check EXCEPT !.tries = 1, !.failing[Platform] = @ + 1]
          ELSE check' = [check EXCEPT !.at = "judge", !.truth = site[r],
                  !.outcome = Outcome(Platform, answer),
                  !.failing[Platform] = IF Outcome(Platform, answer) = "unknown"
                                        THEN @ + 1 ELSE 0]
    BY <1>3 DEF Ask
  <2>2. check.at = "next" /\ UNCHANGED <<posting, site>>
    BY <1>3 DEF Ask
  <2>3. CASE answer \in Retryable /\ check.tries = 0
    <3>1. PICK f : check' = [check EXCEPT !.tries = 1, !.failing = f]
      BY <2>1, <2>3
    <3>2. IsRun(check') /\ check'.at = "next"
      BY <2>2, <3>1 DEF CheckInv, IsRun, Fields
    <3> QED  BY <1>0, <2>2, <3>2 DEF CheckInv
  <2>4. CASE ~(answer \in Retryable /\ check.tries = 0)
    <3>1. PICK f : check' = [check EXCEPT !.at = "judge", !.truth = site[r],
                                          !.outcome = Outcome(Platform, answer), !.failing = f]
      BY <2>1, <2>4
    <3>2. /\ check'.todo = check.todo /\ check'.truth = site[r]
          /\ check'.outcome = Outcome(Platform, answer)
          /\ IsRun(check')
      BY <3>1 DEF CheckInv, IsRun, Fields
    <3>3. r \in Records => OutcomeIsTrue(Platform, Outcome(Platform, answer), site[r])
      BY AnswersTellTruth DEF CheckInv
    <3>4. Platform' = Platform
      BY <3>2 DEF Platform
    <3> QED  BY <2>2, <3>2, <3>3, <3>4 DEF CheckInv
  <2> QED  BY <2>3, <2>4
<1>4. CASE Unknown
  <2>1. PICK u, t, c : check' = Dropped(c) /\ c = [check EXCEPT !.unknowns = u, !.tripped = t]
    BY <1>4 DEF Unknown
  <2>2. IsRun(c)
    BY <2>1 DEF CheckInv, IsRun, Fields
  <2>3. IsRun(Dropped(c)) /\ Dropped(c).at = "next"
    BY <1>10, <2>2
  <2> QED  BY <1>0, <1>4, <2>1, <2>3 DEF CheckInv, Unknown
<1>5. CASE Known
  <2>1. PICK u, c : check' = Dropped(c) /\ c = [check EXCEPT !.unknowns = u]
    BY <1>5 DEF Known
  <2>2. IsRun(c)
    BY <2>1 DEF CheckInv, IsRun, Fields
  <2>3. IsRun(Dropped(c)) /\ Dropped(c).at = "next"
    BY <1>10, <2>2
  <2>4. posting' \in [Records -> {"active", "closed"}]
    BY <1>5 DEF CheckInv, Known
  <2> QED  BY <1>0, <1>5, <2>1, <2>3, <2>4 DEF Known
<1>6. CASE Backfill
  BY <1>6 DEF CheckInv, Backfill, Platform
<1>7. CASE Changes
  <2>1. UNCHANGED check /\ Platform' = Platform
    BY <1>7 DEF Changes, Platform
  <2>2. /\ posting' \in [Records -> {"active", "closed"}]
        /\ site' \in [Records -> {"active", "closed"}]
    BY <1>7 DEF CheckInv, Changes
  <2> QED  BY <2>1, <2>2 DEF CheckInv
<1>8. CASE UNCHANGED checkVars
  BY <1>8 DEF CheckInv, checkVars, Platform
<1> QED  BY <1>1, <1>2, <1>11, <1>3, <1>4, <1>5, <1>6, <1>7, <1>8 DEF CheckNext, CheckStep

(* CheckInv is an invariant of checks, backfills, sites and users.          *)
THEOREM CheckInvariant == CheckSpec => []CheckInv
<1>1. CheckInit => CheckInv
  <2>1. IsRun(Ready) /\ Ready.at # "judge"
    BY DEF IsRun, Ready, Fields
  <2> QED  BY <2>1 DEF CheckInit, CheckInv
<1> QED  BY <1>1, CheckInductive, PTL DEF CheckSpec

(* Whatever the sites answer and whoever changes what meanwhile, a check    *)
(* writes of a posting only what was true of it when its site answered, for *)
(* any records on any platforms (maintenance.py, status_probes.py).         *)
THEOREM ChecksWriteTruth == CheckSpec => WritesWhatWasTrue
<1>1. CheckInv /\ [CheckNext]_checkVars =>
        [check' # check /\ posting' # posting
           => posting'[Head(check.todo)] = check.truth]_checkVars
  <2> SUFFICES ASSUME CheckInv, CheckNext, check' # check, posting' # posting
               PROVE  posting'[Head(check.todo)] = check.truth
    OBVIOUS
  <2> DEFINE r == Head(check.todo)
  <2>1. Known
    BY DEF CheckNext, CheckStep, Begin, Ended, Skip, Ask, Unknown, Backfill, Changes
  <2>2. /\ check.at = "judge"
        /\ posting' = [posting EXCEPT ![r] = check.outcome]
        /\ \/ check.outcome = "active" /\ Platform \in RecheckSafe
           \/ check.outcome = "closed"
    BY <2>1 DEF Known
  <2>3. r \in Records
    BY <2>2 DEF CheckInv
  <2> QED  BY <2>2, <2>3 DEF CheckInv, OutcomeIsTrue
<1> QED  BY <1>1, CheckInvariant, PTL DEF CheckSpec, WritesWhatWasTrue
=============================================================================
